---- MODULE Spec2Model ----
(***************************************************************************)
(* Model of the flashcards study core: the SM-2 scheduler                  *)
(* (SpacedRepetitionService), the LocalStorageRepository card / session    *)
(* writes, and the Study page's session state machine (Study.tsx).         *)
(*                                                                         *)
(* Ease factors are kept in hundredths (2.5 is 250): every increment the   *)
(* SM-2 formula can produce for an integer quality is a multiple of 0.01.  *)
(***************************************************************************)
EXTENDS Integers, Naturals, Sequences, FiniteSets, TLC

(***************************************************************************)
(* Bounds of the model.                                                    *)
(***************************************************************************)
MaxSM2Reviews == 3      \* reviews applied in a row to one card (SpecSM2)
MaxInputReps == 3       \* largest repetitions value of an input card (SpecSM2)
MaxCards == 3           \* cards in the deck under study
MaxReviews == 4         \* answers given in one run
MaxQuizReviews == 5     \* answers given in one run of ai-quiz sessions
MaxLoads == 2           \* times the page is left and entered again
MaxTimers == 2          \* setTimeout callbacks pending at once
MaxRequests == 2        \* generateConfusingOptions calls in flight at once
MaxLearnAnswers == 6    \* answers given to one card (SpecLearn)
MaxAnswers == 3         \* length of allAnswers (SpecOptions)
MaxCount == 4           \* largest count asked for (SpecOptions)
MaxTextLen == 3         \* length of the answers enumerated in full (SpecValidate)
MaxOrderCards == 3      \* cards passed to getStudyOrder (SpecOrder)
MaxTime == 3            \* latest time the clock reaches (SpecUpdate)
MaxRun == 6             \* successful reviews in a row (SpecSM2Run)
MaxDay == 17            \* last day the clock reaches (SpecDue)

(***************************************************************************)
(* Program constants.                                                      *)
(***************************************************************************)
MinEaseFactor == 130    \* the 1.3 floor
DefaultEaseFactor == 250
SuccessThreshold == 3   \* quality < 3 is a failed recall
MultipleChoiceDelay == 1000     \* setTimeout delays, in ms
WrittenDelay == 2000
MatchCompleteDelay == 2000
MismatchDelay == 500

Qualities == 0..5
NoIndex == -1           \* null where the code holds a number or null
NoQuality == NoIndex    \* no quality given yet

VARIABLES
    sm2Card,        \* the card a scheduler run works on: easeFactor, interval, repetitions
    sm2Prev,        \* that card before the most recent calculateNextReview
    sm2Quality,     \* quality of the most recent calculateNextReview, NoQuality before the first
    sm2Fresh,       \* TRUE when the run started from a freshly created card
    sm2Count        \* number of reviews applied in this run

sm2vars == <<sm2Card, sm2Prev, sm2Quality, sm2Fresh, sm2Count>>

VARIABLE
    lpHistory       \* SpecLearn: the answers given to the card so far, each with
                    \* the question type it was asked at

VARIABLES
    mcArgs,         \* SpecOptions: correctAnswer, allAnswers and count of a call of
                    \* AnswerValidationService.generateMultipleChoiceOptions
    mcOptions       \* the list the call returned, <<>> before the call

mcvars == <<mcArgs, mcOptions>>

VARIABLES
    avArgs,         \* SpecValidate: userAnswer and correctAnswer of a call of
                    \* AnswerValidationService
    avResult        \* what the call returned, and which call it was

avvars == <<avArgs, avResult>>

VARIABLES
    soArgs,         \* SpecOrder: the cards array passed to getStudyOrder or
                    \* sortByDifficulty, and the time of the call
    soResult        \* what the call returned, which call it was, and the
                    \* array passed as the call left it

sovars == <<soArgs, soResult>>

VARIABLES
    lsDecks,        \* SpecUpdate: localStorage's 'flashcards_decks' item, as
                    \* JSON.parse reads it
    ucNow,          \* the time new Date() returns
    ucCall          \* the updateCard call made: its arguments, the decks as
                    \* read before it, the time it read and how it ended

ucvars == <<lsDecks, ucNow, ucCall>>

VARIABLES
    gdCard,         \* SpecDue: the card, before and after it is graded
    gdGraded,       \* the grading: the quality given and the day it was given
    gdNow           \* the day new Date() returns

gdvars == <<gdCard, gdGraded, gdNow>>

purevars == <<sm2vars, lpHistory, mcvars, avvars, sovars, ucvars, gdvars>>

VARIABLES
    store,                  \* localStorage: the deck's cards as persisted
    deck,                   \* the deck state: the cards as loaded by loadDeck
    back,                   \* back text of each card
    hasApiKey,              \* openAIService.hasApiKey()
    studyCards,             \* sequence of card ids
    currentCardIndex,       \* 0-based, as in the code
    showAnswer,
    studyMode,
    interactionType,
    sessionStarted,
    cardsStudied,
    correctAnswers,
    showCompleteAlert,
    answerFeedback,         \* NoFeedback (null) or the validation result shown
    multipleChoiceOptions,  \* set of option texts
    selectedOption,
    isGeneratingOptions,
    cardProgress,           \* card id -> CardProgress, on the ids it has
    matchPairs,             \* sequence of card ids, one pair per card
    selectedFront,          \* 0-based pair index, NoIndex for null
    selectedBack,
    matchedPairs,           \* set of 0-based pair indices
    matchEndTime,           \* TRUE when set to a time, FALSE for null
    timers,                 \* pending setTimeout callbacks with their closures
    requests,               \* generateConfusingOptions calls in flight
    sessions,               \* localStorage: saved study sessions
    reviewCount,            \* answers given so far
    loadCount,              \* loads of the deck after the first
    answered,               \* handleAnswerResult runs since startSession
    answeredCorrect,        \* those with quality >= 3
    summarySaved,           \* saveStudySession has run since the last resetSession
    lastWritten,            \* index of the last review this session wrote, NoIndex before
    deckStored,             \* localStorage still holds the deck and its cards
    rejected                \* handleAnswerResult promises rejected so far

uivars == <<studyCards, currentCardIndex, showAnswer, studyMode, interactionType,
            sessionStarted, cardsStudied, correctAnswers, showCompleteAlert,
            answerFeedback, multipleChoiceOptions, selectedOption,
            isGeneratingOptions, cardProgress>>
matchvars == <<matchPairs, selectedFront, selectedBack, matchedPairs, matchEndTime>>
envvars == <<store, deck, back, hasApiKey, timers, requests, sessions,
             reviewCount, loadCount, answered, answeredCorrect, summarySaved,
                   lastWritten, deckStored, rejected>>
sessionvars == <<uivars, matchvars, envvars>>

vars == <<purevars, sessionvars>>

(***************************************************************************)
(* SpacedRepetitionService                                                 *)
(***************************************************************************)

\* Math.round on a non-negative product interval * easeFactor (hundredths)
RoundHundredths(x) == (x + 50) \div 100

\* 0.1 - (5 - q) * (0.08 + (5 - q) * 0.02), in hundredths
EaseDelta(quality) == 10 - (5 - quality) * (8 + (5 - quality) * 2)

\* calculateNextReview with the interval product taken after the ease-factor
\* update instead of before it
calculateNextReview_EaseFirst(card, quality, now) ==
    LET failed == quality < SuccessThreshold
        raised == card.easeFactor + EaseDelta(quality)
        easeFactor == IF raised < MinEaseFactor THEN MinEaseFactor ELSE raised
        interval ==
            IF failed THEN 0
            ELSE IF card.repetitions = 0 THEN 1
            ELSE IF card.repetitions = 1 THEN 6
            ELSE RoundHundredths(card.interval * easeFactor)
        repetitions == IF failed THEN 0 ELSE card.repetitions + 1
    IN  [easeFactor |-> easeFactor,
         interval |-> interval,
         repetitions |-> repetitions,
         nextReviewDate |-> now + interval]

\* calculateNextReview with the failure test off by one (quality < 2)
calculateNextReview_Threshold2(card, quality, now) ==
    LET failed == quality < SuccessThreshold - 1
        interval ==
            IF failed THEN 0
            ELSE IF card.repetitions = 0 THEN 1
            ELSE IF card.repetitions = 1 THEN 6
            ELSE RoundHundredths(card.interval * card.easeFactor)
        repetitions == IF failed THEN 0 ELSE card.repetitions + 1
        raised == card.easeFactor + EaseDelta(quality)
        easeFactor == IF raised < MinEaseFactor THEN MinEaseFactor ELSE raised
    IN  [easeFactor |-> easeFactor,
         interval |-> interval,
         repetitions |-> repetitions,
         nextReviewDate |-> now + interval]

\* calculateNextReview with a failed recall resetting repetitions only
calculateNextReview_KeepInterval(card, quality, now) ==
    LET failed == quality < SuccessThreshold
        interval ==
            IF failed THEN card.interval
            ELSE IF card.repetitions = 0 THEN 1
            ELSE IF card.repetitions = 1 THEN 6
            ELSE RoundHundredths(card.interval * card.easeFactor)
        repetitions == IF failed THEN 0 ELSE card.repetitions + 1
        raised == card.easeFactor + EaseDelta(quality)
        easeFactor == IF raised < MinEaseFactor THEN MinEaseFactor ELSE raised
    IN  [easeFactor |-> easeFactor,
         interval |-> interval,
         repetitions |-> repetitions,
         nextReviewDate |-> now + interval]

\* calculateNextReview with the ease factor's floor at 1.0
calculateNextReview_FloorOne(card, quality, now) ==
    LET failed == quality < SuccessThreshold
        interval ==
            IF failed THEN 0
            ELSE IF card.repetitions = 0 THEN 1
            ELSE IF card.repetitions = 1 THEN 6
            ELSE RoundHundredths(card.interval * card.easeFactor)
        repetitions == IF failed THEN 0 ELSE card.repetitions + 1
        raised == card.easeFactor + EaseDelta(quality)
        easeFactor == IF raised < 100 THEN 100 ELSE raised
    IN  [easeFactor |-> easeFactor,
         interval |-> interval,
         repetitions |-> repetitions,
         nextReviewDate |-> now + interval]

\* calculateNextReview without the 1.3 floor
calculateNextReview_NoFloor(card, quality, now) ==
    LET failed == quality < SuccessThreshold
        interval ==
            IF failed THEN 0
            ELSE IF card.repetitions = 0 THEN 1
            ELSE IF card.repetitions = 1 THEN 6
            ELSE RoundHundredths(card.interval * card.easeFactor)
        repetitions == IF failed THEN 0 ELSE card.repetitions + 1
    IN  [easeFactor |-> card.easeFactor + EaseDelta(quality),
         interval |-> interval,
         repetitions |-> repetitions,
         nextReviewDate |-> now + interval]

\* calculateNextReview with the ease factor updated in the success branch only
calculateNextReview_EaseOnSuccess(card, quality, now) ==
    LET failed == quality < SuccessThreshold
        interval ==
            IF failed THEN 0
            ELSE IF card.repetitions = 0 THEN 1
            ELSE IF card.repetitions = 1 THEN 6
            ELSE RoundHundredths(card.interval * card.easeFactor)
        repetitions == IF failed THEN 0 ELSE card.repetitions + 1
        raised == IF failed THEN card.easeFactor
                  ELSE card.easeFactor + EaseDelta(quality)
        easeFactor == IF raised < MinEaseFactor THEN MinEaseFactor ELSE raised
    IN  [easeFactor |-> easeFactor,
         interval |-> interval,
         repetitions |-> repetitions,
         nextReviewDate |-> now + interval]

calculateNextReview(card, quality, now) ==
    LET failed == quality < SuccessThreshold
        interval ==
            IF failed THEN 0
            ELSE IF card.repetitions = 0 THEN 1
            ELSE IF card.repetitions = 1 THEN 6
            ELSE RoundHundredths(card.interval * card.easeFactor)
        repetitions == IF failed THEN 0 ELSE card.repetitions + 1
        raised == card.easeFactor + EaseDelta(quality)
        easeFactor == IF raised < MinEaseFactor THEN MinEaseFactor ELSE raised
    IN  [easeFactor |-> easeFactor,
         interval |-> interval,
         repetitions |-> repetitions,
         nextReviewDate |-> now + interval]

qualityToDifficulty(quality) ==
    IF quality = 0 \/ quality = 1 THEN "hard"
    ELSE IF quality = 2 \/ quality = 3 THEN "medium"
    ELSE "easy"

\* scheduling fields of a card as createCard callers / bulkImportCards set them
FreshCard == [easeFactor |-> DefaultEaseFactor, interval |-> 0, repetitions |-> 0]

(***************************************************************************)
(* SpecSM2: calculateNextReview applied repeatedly to one card, the result *)
(* written back as updateCard's spread does.  The first card is any card a *)
(* deck can hold (imported decks carry arbitrary scheduling fields).       *)
(***************************************************************************)
EaseInputs == {MinEaseFactor, 150, DefaultEaseFactor, 280}
IntervalInputs == {0, 1, 6, 10, 15}

InitCard ==
    /\ sm2Card \in [easeFactor : EaseInputs,
                    interval : IntervalInputs,
                    repetitions : 0..MaxInputReps]
    /\ sm2Prev = sm2Card
    /\ sm2Quality = NoQuality
    /\ sm2Fresh = (sm2Card = FreshCard)
    /\ sm2Count = 0


(***************************************************************************)
(* Study page: data                                                        *)
(***************************************************************************)
Cards == 1..MaxCards
DeckOrder == [i \in 1..MaxCards |-> i]      \* deck.cards, in creation order
NoOption == <<"none", 0>>
\* validateAnswer's results, similarity in hundredths: a correct answer has any
\* similarity above 0, an incorrect one a similarity below 0.85
ValidationResults ==
    [isCorrect : {TRUE}, similarity : {50, 95, 96, 100}]
        \cup [isCorrect : {FALSE}, similarity : {0, 50}]
NoFeedback == [isCorrect |-> FALSE, similarity |-> NoIndex]   \* answerFeedback: null
BackText(c) == <<"back", back[c]>>          \* card.back
AIText(c) == <<"ai", c>>                    \* the three distractors generated for c
InteractionTypes == {"flashcards", "learn", "test", "match", "ai-quiz"}
StudyModes == {"due", "unknown", "sequential"}
Range(seq) == {seq[i] : i \in 1..Len(seq)}

\* a card as bulkImportCards creates it
NewCard ==
    [easeFactor |-> FreshCard.easeFactor,
     interval |-> FreshCard.interval,
     repetitions |-> FreshCard.repetitions,
     difficulty |-> "unknown",
     reviewed |-> FALSE,            \* lastReviewDate is set
     aiOptions |-> FALSE]           \* aiGeneratedOptions holds 3 entries

\* the state a handler's closure reads: the values of the render it was made in
Closure ==
    [cards |-> studyCards, idx |-> currentCardIndex, cs |-> cardsStudied,
     ca |-> correctAnswers, it |-> interactionType, pairs |-> matchPairs]
NoClosure ==
    [cards |-> <<>>, idx |-> 0, cs |-> 0, ca |-> 0, it |-> "match", pairs |-> <<>>]

EmptyMap == [c \in {} |-> 0]                 \* new Map()
RemoveAt(seq, i) == SubSeq(seq, 1, i - 1) \o SubSeq(seq, i + 1, Len(seq))

PendingAnswers == Cardinality({i \in 1..Len(timers) : timers[i].kind = "answer"})
PendingAIAnswers ==
    Cardinality({i \in 1..Len(timers) :
                    timers[i].kind = "answer" /\ timers[i].cl.it = "ai-quiz"})
\* room for one more answer within the model's bounds
AnswerBudget ==
    reviewCount + PendingAnswers
        < (IF interactionType = "ai-quiz" THEN MaxQuizReviews ELSE MaxReviews)
RequestBudget(n) == Len(requests) + PendingAIAnswers + n <= MaxRequests

(***************************************************************************)
(* Study page: initial state (the page mounted, loadDeck done)             *)
(***************************************************************************)
InitPageExceptProgress ==
    /\ studyCards = <<>>
    /\ currentCardIndex = 0
    /\ showAnswer = FALSE
    /\ studyMode = "due"
    /\ interactionType = "flashcards"
    /\ sessionStarted = FALSE
    /\ cardsStudied = 0
    /\ correctAnswers = 0
    /\ showCompleteAlert = FALSE
    /\ answerFeedback = NoFeedback
    /\ multipleChoiceOptions = {}
    /\ selectedOption = NoOption
    /\ isGeneratingOptions = FALSE
    /\ matchPairs = <<>>
    /\ selectedFront = NoIndex
    /\ selectedBack = NoIndex
    /\ matchedPairs = {}
    /\ matchEndTime = FALSE

InitPage == InitPageExceptProgress /\ cardProgress = EmptyMap

InitEnv ==
    /\ store = [c \in Cards |-> NewCard]
    /\ deck = store
    /\ timers = <<>>
    /\ requests = <<>>
    /\ sessions = <<>>
    /\ reviewCount = 0
    /\ loadCount = 0
    /\ answered = 0
    /\ answeredCorrect = 0
    /\ summarySaved = FALSE
    /\ lastWritten = NoIndex
    /\ deckStored = TRUE
    /\ rejected = 0

(***************************************************************************)
(* Study page: option generation                                           *)
(***************************************************************************)

\* AnswerValidationService.generateMultipleChoiceOptions(card.back, backs of
\* cards, 4) as a set: the correct answer and the other answers that differ
\* from it (at most three of them exist while MaxCards <= 4)
generateMultipleChoiceOptions(c, cards) ==
    {BackText(c)} \cup {BackText(d) : d \in {e \in Range(cards) : back[e] # back[c]}}

\* generateMultipleChoiceForCurrentCard(cards, index), index 0-based
generateMultipleChoiceForCurrentCard(cards, index) ==
    IF index >= Len(cards) THEN multipleChoiceOptions
    ELSE generateMultipleChoiceOptions(cards[index + 1], cards)

\* generateAIOptionsForCurrentCard up to its await: does it call the service?
AIRequestNeeded(c) == ~deck[c].aiOptions /\ hasApiKey
\* ... and the options it sets at once when it does not (cached, or the
\* fallback over the closure's studyCards)
AIOptionsNow(c, closureCards) ==
    IF deck[c].aiOptions THEN {BackText(c), AIText(c)}
    ELSE generateMultipleChoiceOptions(c, closureCards)
AIRequest(c, closureCards) == [card |-> c, cards |-> closureCards, stale |-> FALSE]

(***************************************************************************)
(* Study page: session setup                                               *)
(***************************************************************************)
getUnknownCards(cards) ==
    SelectSeq(cards, LAMBDA c : deck[c].repetitions = 0 /\ ~deck[c].reviewed)

\* every enumeration without repetition of a set of cards
OrderingsOf(S) ==
    {s \in [1..Cardinality(S) -> S] : \A i, j \in 1..Cardinality(S) : i # j => s[i] # s[j]}

\* The card lists prepareStudyCards can produce (filter, then getStudyOrder).
\* due: a card never reviewed is due since its creation and sorts by its
\* creation date; a reviewed card with interval 0 was due when loaded; the
\* other reviewed cards are due or not with the time that has passed, and a
\* reviewed card's place follows its review date.
\* The difficult and random modes are not part of this model.
StudyOrders(mode) ==
    IF mode = "sequential" THEN {DeckOrder}
    ELSE IF mode = "unknown" THEN {getUnknownCards(DeckOrder)}
    ELSE LET mustBeDue == {c \in Cards : ~deck[c].reviewed \/ deck[c].interval = 0}
             inCreationOrder(s) ==
                 \A i, j \in 1..Len(s) :
                     (i < j /\ ~deck[s[i]].reviewed /\ ~deck[s[j]].reviewed) => s[i] < s[j]
         IN  UNION {{s \in OrderingsOf(S) : inCreationOrder(s)} :
                       S \in {T \in SUBSET Cards : mustBeDue \subseteq T}}

initializeMatchMode(cards) ==
    /\ matchPairs' = SubSeq(cards, 1, IF Len(cards) < 8 THEN Len(cards) ELSE 8)
    /\ matchedPairs' = {}
    /\ selectedFront' = NoIndex
    /\ selectedBack' = NoIndex
    /\ matchEndTime' = FALSE

NewProgress == [correctCount |-> 0, incorrectCount |-> 0, currentQuestionType |-> "multiple-choice"]

\* prepareStudyCards, run twice by startSession: once by the handler (whose
\* closure still holds the previous studyCards) and once by the effect on
\* [deck, studyMode, sessionStarted] after the render that follows.
prepareStudyCards(cards) ==
    /\ studyCards' = cards
    /\ currentCardIndex' = 0
    /\ showAnswer' = FALSE
    /\ answerFeedback' = NoFeedback
    /\ selectedOption' = NoOption
    /\ cardProgress' =
          IF interactionType = "learn"
          THEN [c \in Range(cards) |-> NewProgress]
          ELSE cardProgress
    /\ IF interactionType = "match"
       THEN initializeMatchMode(cards)
       ELSE UNCHANGED matchvars
    /\ IF interactionType \in {"learn", "test"} /\ cards # <<>>
       THEN /\ multipleChoiceOptions' = generateMultipleChoiceForCurrentCard(cards, 0)
            /\ UNCHANGED <<isGeneratingOptions, requests>>
       ELSE IF interactionType = "ai-quiz" /\ cards # <<>>
       THEN IF AIRequestNeeded(cards[1])
            THEN /\ isGeneratingOptions' = TRUE
                 /\ requests' = requests \o <<AIRequest(cards[1], studyCards),
                                              AIRequest(cards[1], cards)>>
                 /\ UNCHANGED multipleChoiceOptions
            ELSE /\ multipleChoiceOptions' = AIOptionsNow(cards[1], cards)
                 /\ isGeneratingOptions' = FALSE
                 /\ UNCHANGED requests
       ELSE UNCHANGED <<multipleChoiceOptions, isGeneratingOptions, requests>>

startSession ==
    /\ ~sessionStarted
    /\ ~showCompleteAlert
    /\ interactionType = "ai-quiz" /\ hasApiKey => RequestBudget(2)
    /\ sessionStarted' = TRUE
    /\ \E cards \in StudyOrders(studyMode) : prepareStudyCards(cards)
    /\ answered' = 0
    /\ answeredCorrect' = 0
    /\ lastWritten' = NoIndex
    /\ UNCHANGED <<studyMode, interactionType, cardsStudied, correctAnswers,
                   showCompleteAlert, store, deck, back, hasApiKey, timers,
                   sessions, reviewCount, loadCount, summarySaved, deckStored,
                   rejected>>
    /\ UNCHANGED purevars

setInteractionType(type) ==
    /\ ~sessionStarted
    /\ ~showCompleteAlert
    /\ type # interactionType
    /\ interactionType' = type
    /\ UNCHANGED <<studyCards, currentCardIndex, showAnswer, studyMode,
                   sessionStarted, cardsStudied, correctAnswers, showCompleteAlert,
                   answerFeedback, multipleChoiceOptions, selectedOption,
                   isGeneratingOptions, cardProgress, matchvars, envvars>>
    /\ UNCHANGED purevars

setStudyMode(mode) ==
    /\ ~sessionStarted
    /\ ~showCompleteAlert
    /\ mode # studyMode
    /\ studyMode' = mode
    /\ UNCHANGED <<studyCards, currentCardIndex, showAnswer, interactionType,
                   sessionStarted, cardsStudied, correctAnswers, showCompleteAlert,
                   answerFeedback, multipleChoiceOptions, selectedOption,
                   isGeneratingOptions, cardProgress, matchvars, envvars>>
    /\ UNCHANGED purevars

\* every callback still pending was made before this reset
MarkStale(seq) == [i \in 1..Len(seq) |-> [seq[i] EXCEPT !.stale = TRUE]]

\* resetSession without setCardProgress(new Map())
resetSession_KeepProgress ==
    /\ ~showCompleteAlert
    /\ sessionStarted' = FALSE
    /\ currentCardIndex' = 0
    /\ showAnswer' = FALSE
    /\ cardsStudied' = 0
    /\ correctAnswers' = 0
    /\ answerFeedback' = NoFeedback
    /\ selectedOption' = NoOption
    /\ timers' = MarkStale(timers)
    /\ requests' = MarkStale(requests)
    /\ summarySaved' = FALSE
    /\ lastWritten' = NoIndex
    /\ UNCHANGED <<studyCards, studyMode, interactionType, showCompleteAlert,
                   multipleChoiceOptions, isGeneratingOptions, matchvars,
                   store, deck, back, hasApiKey, sessions, reviewCount,
                   loadCount, answered, answeredCorrect, deckStored, rejected,
                   cardProgress>>
    /\ UNCHANGED purevars

resetSession ==
    /\ ~showCompleteAlert
    /\ sessionStarted' = FALSE
    /\ currentCardIndex' = 0
    /\ showAnswer' = FALSE
    /\ cardsStudied' = 0
    /\ correctAnswers' = 0
    /\ answerFeedback' = NoFeedback
    /\ selectedOption' = NoOption
    /\ cardProgress' = EmptyMap
    /\ timers' = MarkStale(timers)
    /\ requests' = MarkStale(requests)
    /\ summarySaved' = FALSE
    /\ lastWritten' = NoIndex
    /\ UNCHANGED <<studyCards, studyMode, interactionType, showCompleteAlert,
                   multipleChoiceOptions, isGeneratingOptions, matchvars,
                   store, deck, back, hasApiKey, sessions, reviewCount,
                   loadCount, answered, answeredCorrect, deckStored, rejected>>
    /\ UNCHANGED purevars


(***************************************************************************)
(* Study page: answering                                                   *)
(***************************************************************************)
SessionShown == sessionStarted /\ ~showCompleteAlert
\* the question is rendered: not the "no cards" screen, not match mode
QuestionShown ==
    /\ SessionShown
    /\ interactionType # "match"
    /\ currentCardIndex < Len(studyCards)
currentCard == studyCards[currentCardIndex + 1]

getCurrentQuestionType ==
    IF interactionType = "flashcards" THEN "flashcard"
    ELSE IF interactionType = "test" THEN "written"
    ELSE IF interactionType = "match" THEN "flashcard"
    ELSE IF interactionType = "ai-quiz" THEN "multiple-choice"
    ELSE IF studyCards # <<>>
    THEN IF currentCard \in DOMAIN cardProgress
         THEN cardProgress[currentCard].currentQuestionType
         ELSE "multiple-choice"
    ELSE "flashcard"

\* updateLearnProgress moving a card after three answers instead of two
nextLearnProgress_Threshold3(progress, isCorrect) ==
    IF isCorrect
    THEN LET n == progress.correctCount + 1
         IN  [progress EXCEPT
                !.correctCount = n,
                !.currentQuestionType =
                    IF n >= 3
                    THEN IF @ = "multiple-choice" THEN "flashcard"
                         ELSE IF @ = "flashcard" THEN "written"
                         ELSE @
                    ELSE @]
    ELSE LET n == progress.incorrectCount + 1
         IN  [progress EXCEPT
                !.incorrectCount = IF n >= 3 THEN 0 ELSE n,
                !.currentQuestionType =
                    IF n >= 3
                    THEN IF @ = "written" THEN "flashcard"
                         ELSE IF @ = "flashcard" THEN "multiple-choice"
                         ELSE @
                    ELSE @]

\* updateLearnProgress starting the count of correct answers again at an
\* incorrect one
nextLearnProgress_ResetCorrect(progress, isCorrect) ==
    IF isCorrect
    THEN LET n == progress.correctCount + 1
         IN  [progress EXCEPT
                !.correctCount = n,
                !.currentQuestionType =
                    IF n >= 2
                    THEN IF @ = "multiple-choice" THEN "flashcard"
                         ELSE IF @ = "flashcard" THEN "written"
                         ELSE @
                    ELSE @]
    ELSE LET n == progress.incorrectCount + 1
         IN  [progress EXCEPT
                !.correctCount = 0,
                !.incorrectCount = IF n >= 2 THEN 0 ELSE n,
                !.currentQuestionType =
                    IF n >= 2
                    THEN IF @ = "written" THEN "flashcard"
                         ELSE IF @ = "flashcard" THEN "multiple-choice"
                         ELSE @
                    ELSE @]

\* the CardProgress updateLearnProgress computes from progress
nextLearnProgress(progress, isCorrect) ==
    IF isCorrect
    THEN LET n == progress.correctCount + 1
         IN  [progress EXCEPT
                !.correctCount = n,
                !.currentQuestionType =
                    IF n >= 2
                    THEN IF @ = "multiple-choice" THEN "flashcard"
                         ELSE IF @ = "flashcard" THEN "written"
                         ELSE @
                    ELSE @]
    ELSE LET n == progress.incorrectCount + 1
         IN  [progress EXCEPT
                !.incorrectCount = IF n >= 2 THEN 0 ELSE n,
                !.currentQuestionType =
                    IF n >= 2
                    THEN IF @ = "written" THEN "flashcard"
                         ELSE IF @ = "flashcard" THEN "multiple-choice"
                         ELSE @
                    ELSE @]

\* the map updateLearnProgress(cardId, isCorrect) sets
updateLearnProgress(cardId, isCorrect) ==
    IF cardId \notin DOMAIN cardProgress THEN cardProgress
    ELSE [cardProgress EXCEPT ![cardId] = nextLearnProgress(@, isCorrect)]

\* completeSession in the closure cl; given / givenCorrect record, for the
\* claims, the answers the session has taken when the summary is written
completeSession(cl, given, givenCorrect) ==
    /\ sessions' = Append(sessions,
          [cardsStudied |-> IF cl.it = "match" THEN Len(cl.pairs) ELSE cl.cs,
           correctAnswers |-> IF cl.it = "match" THEN Len(cl.pairs) ELSE cl.ca,
           mode |-> cl.it,
           total |-> Len(cl.cards),
           given |-> given,
           givenCorrect |-> givenCorrect])
    /\ showCompleteAlert' = TRUE
    /\ summarySaved' = TRUE

\* what handleAnswerResult changes once updateCard has returned
answerEffects == <<store, cardsStudied, correctAnswers, currentCardIndex,
                   showAnswer, answerFeedback, selectedOption,
                   multipleChoiceOptions, isGeneratingOptions, requests,
                   sessions, showCompleteAlert, summarySaved, answered,
                   answeredCorrect>>

\* handleAnswerResult(quality) in the closure cl, from the updateCard call on,
\* when updateCard succeeds.  repository.updateCard and saveStudySession write
\* localStorage before they return their promise, and the awaits resume
\* before any other event or timer runs.
recordAnswer(cl, quality) ==
    LET card == cl.cards[cl.idx + 1]
        sm2Result == calculateNextReview(deck[card], quality, 0)
        correct == IF quality >= 3 THEN 1 ELSE 0
    IN
    /\ store' = [store EXCEPT ![card] =
                    [@ EXCEPT !.easeFactor = sm2Result.easeFactor,
                              !.interval = sm2Result.interval,
                              !.repetitions = sm2Result.repetitions,
                              !.difficulty = qualityToDifficulty(quality),
                              !.reviewed = TRUE]]
    /\ cardsStudied' = cl.cs + 1
    /\ correctAnswers' = IF quality >= 3 THEN cl.ca + 1 ELSE correctAnswers
    /\ reviewCount' = reviewCount + 1
    /\ answered' = answered + 1
    /\ answeredCorrect' = answeredCorrect + correct
    /\ IF cl.idx < Len(cl.cards) - 1
       THEN LET nextIndex == cl.idx + 1 IN
            /\ currentCardIndex' = nextIndex
            /\ showAnswer' = FALSE
            /\ answerFeedback' = NoFeedback
            /\ selectedOption' = NoOption
            /\ IF cl.it \in {"learn", "test"}
               THEN /\ multipleChoiceOptions' =
                          generateMultipleChoiceForCurrentCard(cl.cards, nextIndex)
                    /\ UNCHANGED <<isGeneratingOptions, requests>>
               ELSE IF cl.it = "ai-quiz"
               THEN IF AIRequestNeeded(cl.cards[nextIndex + 1])
                    THEN /\ isGeneratingOptions' = TRUE
                         /\ requests' = Append(requests,
                                AIRequest(cl.cards[nextIndex + 1], cl.cards))
                         /\ UNCHANGED multipleChoiceOptions
                    ELSE /\ multipleChoiceOptions' =
                                AIOptionsNow(cl.cards[nextIndex + 1], cl.cards)
                         /\ isGeneratingOptions' = FALSE
                         /\ UNCHANGED requests
               ELSE UNCHANGED <<multipleChoiceOptions, isGeneratingOptions, requests>>
            /\ UNCHANGED <<sessions, showCompleteAlert, summarySaved>>
       ELSE /\ completeSession(cl, answered + 1, answeredCorrect + correct)
            /\ UNCHANGED <<currentCardIndex, showAnswer, answerFeedback,
                           selectedOption, multipleChoiceOptions,
                           isGeneratingOptions, requests>>

\* handleAnswerResult with a try / catch around updateCard that logs the
\* error and carries on
handleAnswerResult_Swallow(cl, quality) ==
    IF cl.cards = <<>>
    THEN UNCHANGED <<answerEffects, reviewCount, rejected>>
    ELSE /\ recordAnswer(cl, quality)
         /\ rejected' = IF deckStored THEN rejected ELSE rejected + 1

\* handleAnswerResult(quality) in the closure cl.  updateCard throws when the
\* deck or the card is no longer in localStorage; nothing catches it, so the
\* promise of handleAnswerResult is rejected and the rest does not run.
handleAnswerResult(cl, quality) ==
    IF cl.cards = <<>>
    THEN UNCHANGED <<answerEffects, reviewCount, rejected>>
    ELSE IF ~deckStored
    THEN /\ rejected' = rejected + 1
         /\ reviewCount' = reviewCount + 1
         /\ UNCHANGED answerEffects
    ELSE /\ recordAnswer(cl, quality)
         /\ UNCHANGED rejected

\* the index a review of this session was written for, if this call wrote one
WrittenIndex(cl, stale) ==
    IF cl.cards = <<>> \/ ~deckStored \/ stale THEN lastWritten ELSE cl.idx

AnswerTimer(quality, delay) ==
    [kind |-> "answer", quality |-> quality, cl |-> Closure, stale |-> FALSE,
     delay |-> delay]

\* the "Show Answer" button of a flashcard question
setShowAnswer ==
    /\ QuestionShown
    /\ getCurrentQuestionType = "flashcard"
    /\ ~showAnswer
    /\ showAnswer' = TRUE
    /\ UNCHANGED <<studyCards, currentCardIndex, studyMode, interactionType,
                   sessionStarted, cardsStudied, correctAnswers, showCompleteAlert,
                   answerFeedback, multipleChoiceOptions, selectedOption,
                   isGeneratingOptions, cardProgress, matchvars, envvars>>
    /\ UNCHANGED purevars

\* the space key flips the card in flashcards mode
handleKeyPress ==
    /\ sessionStarted
    /\ interactionType = "flashcards"
    /\ Len(studyCards) > 0
    /\ showAnswer' = ~showAnswer
    /\ UNCHANGED <<studyCards, currentCardIndex, studyMode, interactionType,
                   sessionStarted, cardsStudied, correctAnswers, showCompleteAlert,
                   answerFeedback, multipleChoiceOptions, selectedOption,
                   isGeneratingOptions, cardProgress, matchvars, envvars>>
    /\ UNCHANGED purevars

\* one of the three rating buttons of a flashcard question (1, 3 or 5)
rateFlashcard(quality) ==
    /\ QuestionShown
    /\ getCurrentQuestionType = "flashcard"
    /\ showAnswer
    /\ AnswerBudget
    /\ handleAnswerResult(Closure, quality)
    /\ lastWritten' = WrittenIndex(Closure, FALSE)
    /\ UNCHANGED <<studyCards, studyMode, interactionType, sessionStarted,
                   cardProgress, matchvars, deck, back, hasApiKey, timers,
                   loadCount, deckStored>>
    /\ UNCHANGED purevars

handleMultipleChoiceAnswer(option) ==
    /\ QuestionShown
    /\ getCurrentQuestionType = "multiple-choice"
    /\ ~isGeneratingOptions
    /\ selectedOption = NoOption
    /\ option \in multipleChoiceOptions
    /\ AnswerBudget
    /\ Len(timers) < MaxTimers
    /\ interactionType = "ai-quiz" => RequestBudget(1)
    /\ LET isCorrect == option = BackText(currentCard) IN
       /\ selectedOption' = option
       /\ cardProgress' =
             IF interactionType = "learn"
             THEN updateLearnProgress(currentCard, isCorrect)
             ELSE cardProgress
       /\ timers' = Append(timers,
             AnswerTimer(IF isCorrect THEN 4 ELSE 2, MultipleChoiceDelay))
    /\ UNCHANGED <<studyCards, currentCardIndex, showAnswer, studyMode,
                   interactionType, sessionStarted, cardsStudied, correctAnswers,
                   showCompleteAlert, answerFeedback, multipleChoiceOptions,
                   isGeneratingOptions, matchvars, store, deck, back, hasApiKey,
                   requests, sessions, reviewCount, loadCount, answered,
                   answeredCorrect, summarySaved,
                   lastWritten, deckStored, rejected>>
    /\ UNCHANGED purevars

\* writtenQuality with the similarity test taken as >= 0.95
writtenQuality_AtLeast95(result) ==
    IF result.isCorrect THEN (IF result.similarity >= 95 THEN 5 ELSE 4) ELSE 2

\* the quality handleWrittenAnswer's callback passes on
writtenQuality(result) ==
    IF result.isCorrect THEN (IF result.similarity > 95 THEN 5 ELSE 4) ELSE 2

\* result: what validateAnswer returns for the text typed
handleWrittenAnswer(result) ==
    /\ QuestionShown
    /\ getCurrentQuestionType = "written"
    /\ answerFeedback = NoFeedback
    /\ AnswerBudget
    /\ Len(timers) < MaxTimers
    /\ answerFeedback' = result
    /\ cardProgress' =
          IF interactionType = "learn"
          THEN updateLearnProgress(currentCard, result.isCorrect)
          ELSE cardProgress
    /\ timers' = Append(timers, AnswerTimer(writtenQuality(result), WrittenDelay))
    /\ UNCHANGED <<studyCards, currentCardIndex, showAnswer, studyMode,
                   interactionType, sessionStarted, cardsStudied, correctAnswers,
                   showCompleteAlert, multipleChoiceOptions, selectedOption,
                   isGeneratingOptions, matchvars, store, deck, back, hasApiKey,
                   requests, sessions, reviewCount, loadCount, answered,
                   answeredCorrect, summarySaved,
                   lastWritten, deckStored, rejected>>
    /\ UNCHANGED purevars


(***************************************************************************)
(* Study page: match mode                                                  *)
(***************************************************************************)
\* checkMatch(frontIndex, backIndex); selected is what handleMatchClick has
\* just set for the tile clicked (front or back)
\* checkMatch marking the two tiles matched on a mismatch as well
checkMatch_MarkAlways(frontIndex, backIndex) ==
    IF back[matchPairs[frontIndex + 1]] = back[matchPairs[backIndex + 1]]
    THEN LET newMatched == matchedPairs \cup {frontIndex, backIndex} IN
         /\ matchedPairs' = newMatched
         /\ selectedFront' = NoIndex
         /\ selectedBack' = NoIndex
         /\ IF Cardinality(newMatched) = Len(matchPairs) * 2
            THEN /\ matchEndTime' = TRUE
                 /\ timers' = Append(timers,
                       [kind |-> "complete", quality |-> 0, cl |-> Closure,
                        stale |-> FALSE, delay |-> MatchCompleteDelay])
            ELSE UNCHANGED <<matchEndTime, timers>>
    ELSE /\ timers' = Append(timers,
               [kind |-> "clear", quality |-> 0, cl |-> NoClosure, stale |-> FALSE,
                delay |-> MismatchDelay])
         /\ matchedPairs' = matchedPairs \cup {frontIndex, backIndex}
         /\ UNCHANGED matchEndTime

checkMatch(frontIndex, backIndex) ==
    IF back[matchPairs[frontIndex + 1]] = back[matchPairs[backIndex + 1]]
    THEN LET newMatched == matchedPairs \cup {frontIndex, backIndex} IN
         /\ matchedPairs' = newMatched
         /\ selectedFront' = NoIndex
         /\ selectedBack' = NoIndex
         /\ IF Cardinality(newMatched) = Len(matchPairs) * 2
            THEN /\ matchEndTime' = TRUE
                 /\ timers' = Append(timers,
                       [kind |-> "complete", quality |-> 0, cl |-> Closure,
                        stale |-> FALSE, delay |-> MatchCompleteDelay])
            ELSE UNCHANGED <<matchEndTime, timers>>
    ELSE /\ timers' = Append(timers,
               [kind |-> "clear", quality |-> 0, cl |-> NoClosure, stale |-> FALSE,
                delay |-> MismatchDelay])
         /\ UNCHANGED <<matchedPairs, matchEndTime>>

handleMatchClick(index, type) ==
    /\ SessionShown
    /\ interactionType = "match"
    /\ index \in 0..(Len(matchPairs) - 1)
    /\ Len(timers) < MaxTimers
    /\ IF index \in matchedPairs
       THEN UNCHANGED <<matchvars, timers>>
       ELSE IF type = "front"
       THEN IF selectedFront = index
            THEN /\ selectedFront' = NoIndex
                 /\ UNCHANGED <<selectedBack, matchedPairs, matchEndTime, matchPairs, timers>>
            ELSE IF selectedBack # NoIndex
            THEN /\ checkMatch(index, selectedBack)
                 /\ back[matchPairs[index + 1]] # back[matchPairs[selectedBack + 1]]
                       => (selectedFront' = index /\ selectedBack' = selectedBack)
                 /\ UNCHANGED matchPairs
            ELSE /\ selectedFront' = index
                 /\ UNCHANGED <<selectedBack, matchedPairs, matchEndTime, matchPairs, timers>>
       ELSE IF selectedBack = index
            THEN /\ selectedBack' = NoIndex
                 /\ UNCHANGED <<selectedFront, matchedPairs, matchEndTime, matchPairs, timers>>
            ELSE IF selectedFront # NoIndex
            THEN /\ checkMatch(selectedFront, index)
                 /\ back[matchPairs[selectedFront + 1]] # back[matchPairs[index + 1]]
                       => (selectedBack' = index /\ selectedFront' = selectedFront)
                 /\ UNCHANGED matchPairs
            ELSE /\ selectedBack' = index
                 /\ UNCHANGED <<selectedFront, matchedPairs, matchEndTime, matchPairs, timers>>
    /\ UNCHANGED <<uivars, store, deck, back, hasApiKey, requests, sessions,
                   reviewCount, loadCount, answered, answeredCorrect, summarySaved,
                   lastWritten, deckStored, rejected>>
    /\ UNCHANGED purevars

(***************************************************************************)
(* Timers and the option-generation service                                *)
(***************************************************************************)
\* a pending setTimeout callback runs: not before a callback that was set
\* earlier with the same or a shorter delay
fireTimer(i) ==
    LET t == timers[i] IN
    /\ \A j \in 1..(i - 1) : timers[j].delay > t.delay
    /\ timers' = RemoveAt(timers, i)
    /\ IF t.kind = "answer"
       THEN /\ handleAnswerResult(t.cl, t.quality)
            /\ lastWritten' = WrittenIndex(t.cl, t.stale)
            /\ UNCHANGED <<studyCards, studyMode, interactionType, sessionStarted,
                           cardProgress, matchvars>>
       ELSE IF t.kind = "complete"
       THEN /\ completeSession(t.cl, answered, answeredCorrect)
            /\ UNCHANGED <<studyCards, currentCardIndex, showAnswer, studyMode,
                           interactionType, sessionStarted, cardsStudied,
                           correctAnswers, answerFeedback, multipleChoiceOptions,
                           selectedOption, isGeneratingOptions, cardProgress,
                           matchvars, store, requests, reviewCount, answered,
                           answeredCorrect, lastWritten, rejected>>
       ELSE /\ selectedFront' = NoIndex
            /\ selectedBack' = NoIndex
            /\ UNCHANGED <<uivars, matchPairs, matchedPairs, matchEndTime, store,
                           requests, sessions, reviewCount, answered,
                           answeredCorrect, summarySaved, lastWritten, rejected>>
    /\ UNCHANGED <<deck, back, hasApiKey, loadCount, deckStored>>
    /\ UNCHANGED purevars

\* completeRequest without the catch and the finally: a failure leaves the
\* page as the request found it
completeRequest_NoFallback(i, ok) ==
    LET r == requests[i] IN
    /\ requests' = RemoveAt(requests, i)
    /\ IF ok /\ deckStored
       THEN /\ store' = [store EXCEPT ![r.card].aiOptions = TRUE]
            /\ deck' = [deck EXCEPT ![r.card].aiOptions = TRUE]
            /\ multipleChoiceOptions' = {BackText(r.card), AIText(r.card)}
            /\ isGeneratingOptions' = FALSE
       ELSE UNCHANGED <<store, deck, multipleChoiceOptions, isGeneratingOptions>>
    /\ UNCHANGED <<studyCards, currentCardIndex, showAnswer, studyMode,
                   interactionType, sessionStarted, cardsStudied, correctAnswers,
                   showCompleteAlert, answerFeedback, selectedOption, cardProgress,
                   matchvars, back, hasApiKey, timers, sessions, reviewCount,
                   loadCount, answered, answeredCorrect, summarySaved,
                   lastWritten, deckStored, rejected>>
    /\ UNCHANGED purevars

\* completeRequest saving the card as the page holds it, with the new options,
\* instead of the options alone
completeRequest_WholeCard(i, ok) ==
    LET r == requests[i] IN
    /\ requests' = RemoveAt(requests, i)
    /\ IF ok /\ deckStored
       THEN /\ store' = [store EXCEPT ![r.card] = [deck[r.card] EXCEPT !.aiOptions = TRUE]]
            /\ deck' = [deck EXCEPT ![r.card].aiOptions = TRUE]
            /\ multipleChoiceOptions' = {BackText(r.card), AIText(r.card)}
       ELSE /\ multipleChoiceOptions' = generateMultipleChoiceOptions(r.card, r.cards)
            /\ UNCHANGED <<store, deck>>
    /\ isGeneratingOptions' = FALSE
    /\ UNCHANGED <<studyCards, currentCardIndex, showAnswer, studyMode,
                   interactionType, sessionStarted, cardsStudied, correctAnswers,
                   showCompleteAlert, answerFeedback, selectedOption, cardProgress,
                   matchvars, back, hasApiKey, timers, sessions, reviewCount,
                   loadCount, answered, answeredCorrect, summarySaved,
                   lastWritten, deckStored, rejected>>
    /\ UNCHANGED purevars

\* generateAIOptionsForCurrentCard after its await: the service answered with
\* three options (ok) or threw; updateCard throwing ends in the same catch
completeRequest(i, ok) ==
    LET r == requests[i] IN
    /\ requests' = RemoveAt(requests, i)
    /\ IF ok /\ deckStored
       THEN /\ store' = [store EXCEPT ![r.card].aiOptions = TRUE]
            /\ deck' = [deck EXCEPT ![r.card].aiOptions = TRUE]
            /\ multipleChoiceOptions' = {BackText(r.card), AIText(r.card)}
       ELSE /\ multipleChoiceOptions' = generateMultipleChoiceOptions(r.card, r.cards)
            /\ UNCHANGED <<store, deck>>
    /\ isGeneratingOptions' = FALSE
    /\ UNCHANGED <<studyCards, currentCardIndex, showAnswer, studyMode,
                   interactionType, sessionStarted, cardsStudied, correctAnswers,
                   showCompleteAlert, answerFeedback, selectedOption, cardProgress,
                   matchvars, back, hasApiKey, timers, sessions, reviewCount,
                   loadCount, answered, answeredCorrect, summarySaved,
                   lastWritten, deckStored, rejected>>
    /\ UNCHANGED purevars

\* clearAllData (settings page, or another tab): the deck is no longer in
\* localStorage, the page's deck state is as loaded
clearAllData ==
    /\ deckStored
    /\ deckStored' = FALSE
    /\ UNCHANGED <<uivars, matchvars, store, deck, back, hasApiKey, timers,
                   requests, sessions, reviewCount, loadCount, answered,
                   answeredCorrect, summarySaved, lastWritten, rejected>>
    /\ UNCHANGED purevars

\* The completion alert's OK button.  history.push shows the deck page; the
\* router outlet keeps this page with its state, which is what the user comes
\* back to.  Nothing of the session is reset.
handleCompleteAlertDismiss ==
    /\ showCompleteAlert
    /\ showCompleteAlert' = FALSE
    /\ UNCHANGED <<studyCards, currentCardIndex, showAnswer, studyMode,
                   interactionType, sessionStarted, cardsStudied, correctAnswers,
                   answerFeedback, multipleChoiceOptions, selectedOption,
                   isGeneratingOptions, cardProgress, matchvars, envvars>>
    /\ UNCHANGED purevars

\* The page is left (back button, or the completion alert's dismissal and its
\* history.push) and mounted again: fresh component state, loadDeck reads the
\* deck from localStorage.  Modelled when no callback of the old page is
\* pending.
loadDeck ==
    /\ deckStored
    /\ timers = <<>>
    /\ requests = <<>>
    /\ loadCount < MaxLoads
    /\ studyCards' = <<>>
    /\ currentCardIndex' = 0
    /\ showAnswer' = FALSE
    /\ studyMode' = "due"
    /\ interactionType' = "flashcards"
    /\ sessionStarted' = FALSE
    /\ cardsStudied' = 0
    /\ correctAnswers' = 0
    /\ showCompleteAlert' = FALSE
    /\ answerFeedback' = NoFeedback
    /\ multipleChoiceOptions' = {}
    /\ selectedOption' = NoOption
    /\ isGeneratingOptions' = FALSE
    /\ cardProgress' = EmptyMap
    /\ matchPairs' = <<>>
    /\ selectedFront' = NoIndex
    /\ selectedBack' = NoIndex
    /\ matchedPairs' = {}
    /\ matchEndTime' = FALSE
    /\ deck' = store
    /\ loadCount' = loadCount + 1
    /\ answered' = 0
    /\ answeredCorrect' = 0
    /\ summarySaved' = FALSE
    /\ lastWritten' = NoIndex
    /\ UNCHANGED <<store, back, hasApiKey, timers, requests, sessions, reviewCount,
                   deckStored, rejected>>
    /\ UNCHANGED purevars

(***************************************************************************)
(* AnswerValidationService.generateMultipleChoiceOptions on lists of texts *)
(***************************************************************************)
\* A text is a word written with or without a capital ("Paris", "paris");
\* toLowerCase maps both to the second.
Texts == [word : {"paris", "rome"}, capital : BOOLEAN]
toLowerCase(text) == [text EXCEPT !.capital = FALSE]

\* what sort(() => Math.random() - 0.5) can return: any order of the elements
Shuffles(seq) ==
    {[i \in 1..Len(seq) |-> seq[p[i]]] : p \in OrderingsOf(1..Len(seq))}

\* slice(0, end) for end >= 0
slice(seq, end) == SubSeq(seq, 1, IF end < Len(seq) THEN end ELSE Len(seq))

\* generateMultipleChoiceOptions with the correct answer filtered out by ===
OptionLists_ExactFilter(correctAnswer, allAnswers, count) ==
    LET otherAnswers == SelectSeq(allAnswers, LAMBDA answer : answer # correctAnswer)
    IN  UNION {Shuffles(slice(shuffled, count - 1) \o <<correctAnswer>>) :
                  shuffled \in Shuffles(otherAnswers)}

\* generateMultipleChoiceOptions(correctAnswer, allAnswers, count): the lists
\* it can return, one for each outcome of its two shuffles
OptionLists(correctAnswer, allAnswers, count) ==
    LET otherAnswers ==
            SelectSeq(allAnswers,
                      LAMBDA answer : toLowerCase(answer) # toLowerCase(correctAnswer))
    IN  UNION {Shuffles(slice(shuffled, count - 1) \o <<correctAnswer>>) :
                  shuffled \in Shuffles(otherAnswers)}

NoArgs == [correctAnswer |-> [word |-> "paris", capital |-> FALSE],
           allAnswers |-> <<>>,
           count |-> 1]

IdleMC ==
    /\ mcArgs = NoArgs
    /\ mcOptions = <<>>

(***************************************************************************)
(* AnswerValidationService.validateAnswer on strings.  A string is a       *)
(* sequence of characters (UTF-16 code units).  "Idot" stands for the      *)
(* capital I with a dot (U+0130), whose lower case is the two code units   *)
(* "i" and "dot" (U+0307); " " is white space.  A similarity is a fraction *)
(* num / den, so that the comparisons with 0.85 and 0.75 are exact.        *)
(***************************************************************************)
toLowerCaseChar(c) ==
    CASE c = "Idot" -> <<"i", "dot">>
      [] c = "A" -> <<"a">>
      [] c = "P" -> <<"p">>
      [] OTHER -> <<c>>

RECURSIVE toLowerCaseString(_)
toLowerCaseString(str) ==
    IF str = <<>> THEN <<>>
    ELSE toLowerCaseChar(Head(str)) \o toLowerCaseString(Tail(str))

RECURSIVE trimStart(_)
trimStart(str) ==
    IF str # <<>> /\ Head(str) = " " THEN trimStart(Tail(str)) ELSE str

RECURSIVE trimEnd(_)
trimEnd(str) ==
    IF str # <<>> /\ str[Len(str)] = " "
    THEN trimEnd(SubSeq(str, 1, Len(str) - 1))
    ELSE str

trim(str) == trimEnd(trimStart(str))

\* str.split(/\s+/), word being the piece read so far
RECURSIVE splitWhitespace(_, _)
splitWhitespace(str, word) ==
    IF str = <<>> THEN <<word>>
    ELSE IF Head(str) = " "
    THEN <<word>> \o splitWhitespace(trimStart(Tail(str)), <<>>)
    ELSE splitWhitespace(Tail(str), Append(word, Head(str)))

includes(str, search) ==
    \/ search = <<>>
    \/ \E i \in 1..(Len(str) - Len(search) + 1) :
          SubSeq(str, i, i + Len(search) - 1) = search

commonWords ==
    {<<"t", "h", "e">>, <<"a", "n", "d">>, <<"f", "o", "r">>,
     <<"a", "r", "e">>, <<"b", "u", "t">>, <<"n", "o", "t">>,
     <<"y", "o", "u">>, <<"a", "l", "l">>, <<"c", "a", "n">>,
     <<"h", "e", "r">>, <<"w", "a", "s">>, <<"o", "n", "e">>,
     <<"o", "u", "r">>, <<"o", "u", "t">>, <<"d", "a", "y">>,
     <<"g", "e", "t">>, <<"h", "a", "s">>, <<"h", "i", "m">>,
     <<"h", "i", "s">>, <<"h", "o", "w">>, <<"i", "t", "s">>,
     <<"m", "a", "y">>, <<"n", "e", "w">>, <<"n", "o", "w">>,
     <<"o", "l", "d">>, <<"s", "e", "e">>, <<"t", "w", "o">>,
     <<"w", "h", "o">>, <<"b", "o", "y">>, <<"d", "i", "d">>,
     <<"s", "h", "e">>, <<"t", "o", "o">>, <<"u", "s", "e">>,
     <<"w", "a", "y">>, <<"w", "i", "t", "h">>, <<"t", "h", "i", "s">>,
     <<"t", "h", "a", "t">>, <<"f", "r", "o", "m">>, <<"h", "a", "v", "e">>,
     <<"t", "h", "e", "y">>, <<"w", "i", "l", "l">>, <<"w", "h", "a", "t">>,
     <<"b", "e", "e", "n">>, <<"m", "o", "r", "e">>, <<"w", "h", "e", "n">>,
     <<"y", "o", "u", "r">>, <<"s", "a", "i", "d">>, <<"e", "a", "c", "h">>,
     <<"t", "h", "a", "n">>, <<"t", "h", "e", "m">>, <<"v", "e", "r", "y">>,
     <<"w", "e", "r", "e">>, <<"i", "n", "t", "o">>, <<"j", "u", "s", "t">>,
     <<"l", "i", "k", "e">>, <<"s", "o", "m", "e">>, <<"t", "i", "m", "e">>}

isCommonWord(word) == toLowerCaseString(word) \in commonWords

Similarity(num, den) == [num |-> num, den |-> den]
\* similarity >= percent / 100, for a similarity with den > 0
AtLeast(similarity, percent) == similarity.num * 100 >= percent * similarity.den
\* Math.max of two similarities
MathMax(s1, s2) == IF s1.num * s2.den >= s2.num * s1.den THEN s1 ELSE s2

\* levenshteinDistance returning the larger of the two lengths when the
\* strings differ
levenshteinDistance_Lengths(str1, str2) ==
    IF str1 = str2 THEN 0
    ELSE IF Len(str1) > Len(str2) THEN Len(str1) ELSE Len(str2)

\* the matrix of the dynamic program: rows over str2, columns over str1
levenshteinDistance(str1, str2) ==
    LET Min2(x, y) == IF x < y THEN x ELSE y
        matrix[i \in 0..Len(str2), j \in 0..Len(str1)] ==
            IF i = 0 THEN j
            ELSE IF j = 0 THEN i
            ELSE IF str2[i] = str1[j] THEN matrix[i - 1, j - 1]
            ELSE Min2(matrix[i - 1, j - 1] + 1,
                      Min2(matrix[i, j - 1] + 1, matrix[i - 1, j] + 1))
    IN  matrix[Len(str2), Len(str1)]

exactMatch(userAnswer, correctAnswer) ==
    LET isCorrect == userAnswer = correctAnswer IN
    [isCorrect |-> isCorrect,
     similarity |-> IF isCorrect THEN Similarity(1, 1) ELSE Similarity(0, 1)]

caseInsensitiveMatch(userAnswer, correctAnswer) ==
    LET isCorrect == toLowerCaseString(userAnswer) = toLowerCaseString(correctAnswer) IN
    [isCorrect |-> isCorrect,
     similarity |-> IF isCorrect THEN Similarity(1, 1) ELSE Similarity(0, 1)]

\* typoTolerantMatch with the longer of the lower-case strings as maxLength
typoTolerantMatch_LowerLength(userAnswer, correctAnswer) ==
    LET lowerUser == toLowerCaseString(userAnswer)
        lowerCorrect == toLowerCaseString(correctAnswer)
        distance == levenshteinDistance(lowerUser, lowerCorrect)
        maxLength == IF Len(lowerUser) > Len(lowerCorrect)
                     THEN Len(lowerUser) ELSE Len(lowerCorrect)
        similarity == Similarity(maxLength - distance, maxLength)
    IN  [isCorrect |-> AtLeast(similarity, 85), similarity |-> similarity]

typoTolerantMatch(userAnswer, correctAnswer) ==
    LET distance == levenshteinDistance(toLowerCaseString(userAnswer),
                                        toLowerCaseString(correctAnswer))
        maxLength == IF Len(userAnswer) > Len(correctAnswer)
                     THEN Len(userAnswer) ELSE Len(correctAnswer)
        similarity == Similarity(maxLength - distance, maxLength)
    IN  [isCorrect |-> AtLeast(similarity, 85), similarity |-> similarity]

keywordMatch(userAnswer, correctAnswer) ==
    LET userLower == toLowerCaseString(userAnswer)
        correctLower == toLowerCaseString(correctAnswer)
        keywords == SelectSeq(splitWhitespace(correctLower, <<>>),
                              LAMBDA word : Len(word) >= 3 /\ ~isCommonWord(word))
        matchedKeywords == SelectSeq(keywords, LAMBDA keyword : includes(userLower, keyword))
    IN  IF Len(keywords) = 0
        THEN caseInsensitiveMatch(userAnswer, correctAnswer)
        ELSE [isCorrect |-> Len(matchedKeywords) > 0,
              similarity |-> Similarity(Len(matchedKeywords), Len(keywords))]

\* flexibleMatch with the typo-tolerant attempt accepted from 0.9 on
flexibleMatch_Strict(userAnswer, correctAnswer) ==
    LET typoResult == typoTolerantMatch(userAnswer, correctAnswer)
        keywordResult == keywordMatch(userAnswer, correctAnswer)
    IN  IF toLowerCaseString(userAnswer) = toLowerCaseString(correctAnswer)
        THEN [isCorrect |-> TRUE, similarity |-> Similarity(1, 1)]
        ELSE IF AtLeast(typoResult.similarity, 90)
        THEN [isCorrect |-> TRUE, similarity |-> typoResult.similarity]
        ELSE IF keywordResult.isCorrect
        THEN keywordResult
        ELSE [isCorrect |-> FALSE,
              similarity |-> MathMax(typoResult.similarity, keywordResult.similarity)]

flexibleMatch(userAnswer, correctAnswer) ==
    LET typoResult == typoTolerantMatch(userAnswer, correctAnswer)
        keywordResult == keywordMatch(userAnswer, correctAnswer)
    IN  IF toLowerCaseString(userAnswer) = toLowerCaseString(correctAnswer)
        THEN [isCorrect |-> TRUE, similarity |-> Similarity(1, 1)]
        ELSE IF AtLeast(typoResult.similarity, 75)
        THEN [isCorrect |-> TRUE, similarity |-> typoResult.similarity]
        ELSE IF keywordResult.isCorrect
        THEN keywordResult
        ELSE [isCorrect |-> FALSE,
              similarity |-> MathMax(typoResult.similarity, keywordResult.similarity)]

ValidationTypes == {"exact", "case-insensitive", "typo-tolerant", "keyword", "flexible"}

validateAnswer(userAnswer, correctAnswer, validationType) ==
    LET trimmedUser == trim(userAnswer)
        trimmedCorrect == trim(correctAnswer)
    IN  IF trimmedUser = <<>>
        THEN [isCorrect |-> FALSE, similarity |-> Similarity(0, 1)]
        ELSE CASE validationType = "exact" -> exactMatch(trimmedUser, trimmedCorrect)
               [] validationType = "case-insensitive" ->
                      caseInsensitiveMatch(trimmedUser, trimmedCorrect)
               [] validationType = "typo-tolerant" ->
                      typoTolerantMatch(trimmedUser, trimmedCorrect)
               [] validationType = "keyword" -> keywordMatch(trimmedUser, trimmedCorrect)
               [] OTHER -> flexibleMatch(trimmedUser, trimmedCorrect)

\* the answers of the model: every string of up to MaxTextLen characters
\* over a small alphabet, and some longer ones
Alphabet == {"a", "A", " ", "Idot"}
LongerAnswers ==
    {<<"P", "a", "r", "i", "s">>,
     <<"P", "a", "r", "i">>,
     <<"f", "l", "o", "w", "e", "r", "s">>,
     <<"f", "l", "o", "w", "e", "r", "z">>,
     <<"t", "h", "e", " ", "s", "u", "n">>,
     <<"s", "u", "n">>,
     <<"r", "e", "d", " ", "s", "u", "n">>,
     <<"m", "o", "o", "n", " ", "s", "u", "n">>,
     <<"t", "h", "e">>}
Answers == UNION {[1..n -> Alphabet] : n \in 0..MaxTextLen} \cup LongerAnswers

NoCall == [call |-> "none", type |-> "none", isCorrect |-> FALSE,
           similarity |-> Similarity(0, 1), distance |-> 0]

IdleAV ==
    /\ avArgs = [userAnswer |-> <<>>, correctAnswer |-> <<>>]
    /\ avResult = NoCall

(***************************************************************************)
(* SpacedRepetitionService.getStudyOrder and sortByDifficulty on arrays of *)
(* cards.  A card here is its id (its place in the array passed), its      *)
(* easeFactor in hundredths, its repetitions and its nextReviewDate as a   *)
(* day number.                                                             *)
(***************************************************************************)
\* isDue with the boundary taken as not yet due
isDue_After(card, now) == card.nextReviewDate < now

isDue(card, now) == card.nextReviewDate <= now

\* Array.prototype.sort with a comparison function: the sort is stable, so
\* for a consistent comparison the result is the one arrangement in which
\* no element compares greater than a later one and elements that compare
\* equal keep their order
sort(array, compare(_, _)) ==
    LET n == Len(array)
        p == CHOOSE q \in OrderingsOf(1..n) :
                 \A i, j \in 1..n :
                     i < j => \/ compare(array[q[i]], array[q[j]]) < 0
                              \/ /\ compare(array[q[i]], array[q[j]]) = 0
                                 /\ q[i] < q[j]
    IN  [i \in 1..n |-> array[p[i]]]

reverse(array) == [i \in 1..Len(array) |-> array[Len(array) + 1 - i]]

compareDifficulty(a, b, ascending) ==
    LET difficultyA == a.easeFactor * (a.repetitions + 1)
        difficultyB == b.easeFactor * (b.repetitions + 1)
    IN  IF ascending THEN difficultyA - difficultyB ELSE difficultyB - difficultyA

\* sortByDifficulty sorting ascending and reversing the result for descending
sortByDifficulty_Reverse(cards, ascending) ==
    LET compare(a, b) == compareDifficulty(a, b, TRUE)
    IN  IF ascending THEN sort(cards, compare) ELSE reverse(sort(cards, compare))

sortByDifficulty(cards, ascending) ==
    LET compare(a, b) == compareDifficulty(a, b, ascending)
    IN  sort(cards, compare)

\* the 'due' comparison with the dates compared the other way round
compareDue_Latest(a, b, now) ==
    LET aDue == isDue(a, now)
        bDue == isDue(b, now)
    IN  IF aDue /\ ~bDue THEN -1
        ELSE IF ~aDue /\ bDue THEN 1
        ELSE b.nextReviewDate - a.nextReviewDate

compareDue(a, b, now) ==
    LET aDue == isDue(a, now)
        bDue == isDue(b, now)
    IN  IF aDue /\ ~bDue THEN -1
        ELSE IF ~aDue /\ bDue THEN 1
        ELSE a.nextReviewDate - b.nextReviewDate

\* getStudyOrder(cards, mode) for the modes that sort by the scheduling
\* fields; the modes unknown and sequential are part of StudyOrders
getStudyOrder(cards, mode, now) ==
    LET compare(a, b) == compareDue(a, b, now)
    IN  IF mode = "due" THEN sort(cards, compare)
        ELSE sortByDifficulty(cards, FALSE)

OrderCards ==
    [id : 1..MaxOrderCards,
     easeFactor : {MinEaseFactor, 2 * MinEaseFactor},
     repetitions : 0..1,
     nextReviewDate : 0..3]
CardArrays ==
    UNION {{a \in [1..n -> OrderCards] : \A i \in 1..n : a[i].id = i} :
              n \in 0..MaxOrderCards}
Today == 1

\* getUnknownCards(cards) on an array of cards
filterUnknown(cards) ==
    SelectSeq(cards, LAMBDA card : card.repetitions = 0 /\ ~card.lastReviewDate)

compareCreatedAt(a, b) == a.createdAt - b.createdAt

\* the 'unknown' branch with known taken as the cards with a lastReviewDate
unknownOrder_Reviewed(cards) ==
    filterUnknown(cards) \o SelectSeq(cards, LAMBDA card : card.lastReviewDate)

\* the 'unknown' branch of getStudyOrder
unknownOrder(cards) ==
    LET unknown == filterUnknown(cards)
        known == SelectSeq(cards, LAMBDA card :
                              card.repetitions > 0 \/ card.lastReviewDate)
    IN  sort(unknown, compareCreatedAt) \o known

\* the arrays getStudyOrder(cards, mode) can return: one for every mode but
\* random, where the loop swaps each place i with a place j <= i that
\* Math.random picks, which can produce every arrangement
StudyOrderResults(cards, mode, now) ==
    IF mode = "unknown" THEN {unknownOrder(cards)}
    ELSE IF mode = "random" THEN Shuffles(cards)
    ELSE IF mode = "sequential" THEN {sort(cards, compareCreatedAt)}
    ELSE {getStudyOrder(cards, mode, now)}

\* cards with the fields every mode reads; lastReviewDate: whether it is set
AllModeCards ==
    [id : 1..MaxOrderCards,
     easeFactor : {MinEaseFactor},
     repetitions : 0..1,
     nextReviewDate : {0, 2},
     lastReviewDate : BOOLEAN,
     createdAt : 0..1]
AllModeArrays ==
    UNION {{a \in [1..n -> AllModeCards] : \A i \in 1..n : a[i].id = i} :
              n \in 0..MaxOrderCards}
OrderModes == {"due", "difficult", "unknown", "random", "sequential"}

NoOrder == [call |-> "none", mode |-> "none", ascending |-> FALSE,
            cards |-> <<>>, passed |-> <<>>]

IdleSO ==
    /\ soArgs = [cards |-> <<>>, now |-> Today]
    /\ soResult = NoOrder

(***************************************************************************)
(* LocalStorageRepository.updateCard and the reading and writing of the    *)
(* decks in localStorage.  A JavaScript value is a record that says what   *)
(* it is: a number, a string, a Date at a time, the Invalid Date,          *)
(* undefined or null; a string in the ISO format Date.prototype.toJSON     *)
(* writes is [iso |-> time].  An object is a function from its property    *)
(* names.  One deck is stored; its cards carry the properties the claim    *)
(* about updateCard names and `front' for those it does not.               *)
(***************************************************************************)
Undefined == [undefined |-> TRUE]
Null == [null |-> TRUE]
InvalidDate == [invalid |-> TRUE]
Number(n) == [num |-> n]
String(str) == [str |-> str]
Date(time) == [date |-> time]
ISOString(time) == [iso |-> time]

\* object[key]
Get(object, key) == IF key \in DOMAIN object THEN object[key] ELSE Undefined

\* { ...a, ...b }
Spread(a, b) ==
    [key \in DOMAIN a \cup DOMAIN b |-> IF key \in DOMAIN b THEN b[key] ELSE a[key]]

\* new Date(value)
newDate(value) ==
    IF "iso" \in DOMAIN value THEN Date(value.iso)
    ELSE IF "date" \in DOMAIN value THEN value
    ELSE IF "num" \in DOMAIN value THEN Date(value.num)
    ELSE IF value = Null THEN Date(0)
    ELSE InvalidDate

\* value ? ... : ...
truthy(value) ==
    /\ value # Undefined
    /\ value # Null
    /\ value # Number(0)
    /\ "str" \in DOMAIN value => value.str # ""

\* JSON.stringify of a property's value, as JSON.parse reads it back: a Date
\* is written by toJSON as its ISO string, the Invalid Date as null
toJSON(value) ==
    IF "date" \in DOMAIN value THEN ISOString(value.date)
    ELSE IF value = InvalidDate THEN Null
    ELSE value

\* JSON.stringify of an object: a property whose value is undefined is left out
stringifyObject(object) ==
    [key \in {k \in DOMAIN object : object[k] # Undefined} |-> toJSON(object[key])]

stringifyDecks(decks) ==
    [d \in 1..Len(decks) |->
        [id |-> decks[d].id,
         updatedAt |-> toJSON(decks[d].updatedAt),
         cards |-> [c \in 1..Len(decks[d].cards) |->
                       stringifyObject(decks[d].cards[c])]]]

reviveCard(card) ==
    Spread(card,
           [nextReviewDate |-> newDate(Get(card, "nextReviewDate")),
            lastReviewDate |-> IF truthy(Get(card, "lastReviewDate"))
                               THEN newDate(Get(card, "lastReviewDate"))
                               ELSE Undefined,
            createdAt |-> newDate(Get(card, "createdAt")),
            updatedAt |-> newDate(Get(card, "updatedAt"))])

getDecksFromStorage(data) ==
    [d \in 1..Len(data) |->
        [id |-> data[d].id,
         updatedAt |-> newDate(data[d].updatedAt),
         cards |-> [c \in 1..Len(data[d].cards) |-> reviveCard(data[d].cards[c])]]]

\* array.findIndex(element => element.id === id)
findIndex(array, id) ==
    IF \E i \in 1..Len(array) : Get(array[i], "id") = id
    THEN CHOOSE i \in 1..Len(array) :
             /\ Get(array[i], "id") = id
             /\ \A j \in 1..(i - 1) : Get(array[j], "id") # id
    ELSE NoIndex

\* getCardById(deckId, cardId): the card, or null
getCardById(data, deckId, cardId) ==
    LET decks == getDecksFromStorage(data)
        deckIndex == findIndex(decks, deckId)
    IN  IF deckIndex = NoIndex THEN Null
        ELSE LET cardIndex == findIndex(decks[deckIndex].cards, cardId)
             IN  IF cardIndex = NoIndex THEN Null
                 ELSE decks[deckIndex].cards[cardIndex]

\* updatedCard without the two lines that put id and createdAt back
updatedCard_Spread(card, updates, now) ==
    Spread(Spread(card, updates), [updatedAt |-> Date(now)])

\* updateCard's updatedCard
updatedCard(card, updates, now) ==
    Spread(Spread(card, updates),
           [id |-> card.id, createdAt |-> card.createdAt, updatedAt |-> Date(now)])

CardFields == {"id", "front", "easeFactor", "interval", "repetitions",
               "nextReviewDate", "lastReviewDate", "difficulty", "createdAt",
               "updatedAt"}

DeckId == String(1)
CardIds == {String(c) : c \in 1..MaxCards}
NoSuchId == String(0)

\* a card as createCard stored it at time 0, and as it is after a review
\* at that time
CreatedCard(c, reviewed) ==
    LET card == [id |-> String(c), front |-> String("Original"),
                 easeFactor |-> Number(DefaultEaseFactor),
                 interval |-> Number(IF reviewed THEN 1 ELSE 0),
                 repetitions |-> Number(IF reviewed THEN 1 ELSE 0),
                 nextReviewDate |-> Date(IF reviewed THEN 1 ELSE 0),
                 difficulty |-> String(IF reviewed THEN "medium" ELSE "unknown"),
                 createdAt |-> Date(0), updatedAt |-> Date(0)]
    IN  IF reviewed THEN Spread(card, [lastReviewDate |-> Date(0)]) ELSE card

\* the values an update supplies at time now: those of a review, with a
\* value for each of the other properties, id, createdAt and updatedAt
\* included, and the same with no last review (lastReviewDate: undefined)
SuppliedValues(now) ==
    {[id |-> NoSuchId, front |-> String("Updated"),
      easeFactor |-> Number(DefaultEaseFactor + 10), interval |-> Number(6),
      repetitions |-> Number(2), nextReviewDate |-> Date(now + 6),
      lastReviewDate |-> Date(now), difficulty |-> String("easy"),
      createdAt |-> Date(now + 1), updatedAt |-> Date(now + 2)],
     [id |-> NoSuchId, front |-> String("Updated"),
      easeFactor |-> Number(MinEaseFactor), interval |-> Number(1),
      repetitions |-> Number(0), nextReviewDate |-> Date(now + 1),
      lastReviewDate |-> Undefined, difficulty |-> String("hard"),
      createdAt |-> Date(now + 1), updatedAt |-> Date(now + 2)]}

\* Partial<Card>: any of the properties
PartialCards(now) ==
    {[key \in supplied |-> values[key]] :
        values \in SuppliedValues(now), supplied \in SUBSET CardFields}

NoUpdate == [call |-> "none", deckId |-> NoSuchId, cardId |-> NoSuchId,
             updates |-> <<>>, now |-> 0, data |-> <<>>]

IdleUC ==
    /\ lsDecks = <<>>
    /\ ucNow = 0
    /\ ucCall = NoUpdate

NotGraded == [quality |-> NoQuality, at |-> 0]

IdleGD ==
    /\ gdCard = [easeFactor |-> DefaultEaseFactor, interval |-> 0,
                 repetitions |-> 0, nextReviewDate |-> 0]
    /\ gdGraded = NotGraded
    /\ gdNow = 0

(***************************************************************************)
(* Specifications                                                          *)
(***************************************************************************)
IdleSM2 ==
    /\ sm2Card = FreshCard
    /\ sm2Prev = FreshCard
    /\ sm2Quality = NoQuality
    /\ sm2Fresh = TRUE
    /\ sm2Count = 0
    /\ lpHistory = <<>>
    /\ IdleMC
    /\ IdleAV
    /\ IdleSO
    /\ IdleUC
    /\ IdleGD

\* The interaction type is chosen on the setup screen and fixed from
\* startSession to resetSession.  The page is checked one family of types at
\* a time: the card-by-card types without the service (Spec), ai-quiz
\* (SpecQuiz) and match (SpecMatch).  The deck is not loaded again in these,
\* so its cards are as created and every study mode gives the deck's order;
\* the study modes are exercised with reloads (SpecReload).
CardTypes == {"flashcards", "learn", "test"}

Init ==
    /\ InitPage
    /\ InitEnv
    /\ back \in {b \in [Cards -> Cards] : \A c \in Cards : b[c] \in {c, 1}}
    /\ hasApiKey = FALSE
    /\ IdleSM2

Next ==
    \/ startSession
    \/ \E type \in CardTypes : setInteractionType(type)
    \/ resetSession
    \/ setShowAnswer
    \/ handleKeyPress
    \/ \E quality \in {1, 3, 5} : rateFlashcard(quality)
    \/ \E option \in multipleChoiceOptions : handleMultipleChoiceAnswer(option)
    \/ \E result \in ValidationResults : handleWrittenAnswer(result)
    \/ \E i \in 1..Len(timers) : fireTimer(i)
    \/ handleCompleteAlertDismiss


Spec == Init /\ [][Next]_vars

InitQuiz ==
    /\ InitPage
    /\ InitEnv
    /\ back = [c \in Cards |-> c]
    /\ hasApiKey \in BOOLEAN
    /\ IdleSM2

QuizNext ==
    \/ setInteractionType("ai-quiz")
    \/ startSession
    \/ resetSession
    \/ \E option \in multipleChoiceOptions : handleMultipleChoiceAnswer(option)
    \/ \E i \in 1..Len(timers) : fireTimer(i)
    \/ \E i \in 1..Len(requests), ok \in BOOLEAN : completeRequest(i, ok)

SpecQuiz == InitQuiz /\ [][QuizNext]_vars

\* ai-quiz sessions in which every generateConfusingOptions call settles: the
\* fetch it awaits is answered or fails
SpecQuizLive ==
    SpecQuiz /\ WF_vars(\E i \in 1..Len(requests), ok \in BOOLEAN : completeRequest(i, ok))

InitMatch ==
    /\ InitPage
    /\ InitEnv
    /\ back \in {b \in [Cards -> Cards] : \A c \in Cards : b[c] \in {c, 1}}
    /\ hasApiKey = FALSE
    /\ IdleSM2

MatchNext ==
    \/ setInteractionType("match")
    \/ startSession
    \/ resetSession
    \/ \E index \in 0..(MaxCards - 1), type \in {"front", "back"} : handleMatchClick(index, type)
    \/ \E i \in 1..Len(timers) : fireTimer(i)

SpecMatch == InitMatch /\ [][MatchNext]_vars

\* flashcards sessions over a deck that is loaded again between them
InitReload ==
    /\ InitPage
    /\ InitEnv
    /\ back = [c \in Cards |-> c]
    /\ hasApiKey = FALSE
    /\ IdleSM2

ReloadNext ==
    \/ \E mode \in StudyModes : setStudyMode(mode)
    \/ startSession
    \/ resetSession
    \/ setShowAnswer
    \/ \E quality \in {1, 3, 5} : rateFlashcard(quality)
    \/ loadDeck

SpecReload == InitReload /\ [][ReloadNext]_vars

\* flashcards and test sessions during which the stored data may be cleared
InitFail ==
    /\ InitPage
    /\ InitEnv
    /\ back = [c \in Cards |-> c]
    /\ hasApiKey = FALSE
    /\ IdleSM2

FailNext ==
    \/ \E type \in {"flashcards", "test"} : setInteractionType(type)
    \/ startSession
    \/ resetSession
    \/ setShowAnswer
    \/ \E quality \in {1, 3, 5} : rateFlashcard(quality)
    \/ \E result \in ValidationResults : handleWrittenAnswer(result)
    \/ \E i \in 1..Len(timers) : fireTimer(i)
    \/ clearAllData

SpecFail == InitFail /\ [][FailNext]_vars

(***************************************************************************)
(* SpecLearn: updateLearnProgress applied repeatedly to the CardProgress   *)
(* of one card of a learn session, from the entry prepareStudyCards makes  *)
(***************************************************************************)
InitLearn ==
    /\ InitPageExceptProgress
    /\ cardProgress = [c \in {1} |-> NewProgress]
    /\ InitEnv
    /\ back = [c \in Cards |-> c]
    /\ hasApiKey = FALSE
    /\ IdleSM2

answerLearn(isCorrect) ==
    /\ Len(lpHistory) < MaxLearnAnswers
    /\ 1 \in DOMAIN cardProgress
    /\ cardProgress' = updateLearnProgress(1, isCorrect)
    /\ lpHistory' = Append(lpHistory,
          [isCorrect |-> isCorrect, type |-> cardProgress[1].currentQuestionType])
    /\ UNCHANGED <<sm2vars, mcvars, avvars, sovars, ucvars, gdvars, studyCards, currentCardIndex, showAnswer,
                   studyMode, interactionType, sessionStarted, cardsStudied,
                   correctAnswers, showCompleteAlert, answerFeedback,
                   multipleChoiceOptions, selectedOption, isGeneratingOptions,
                   matchvars, envvars>>

LearnNext == \E isCorrect \in BOOLEAN : answerLearn(isCorrect)

SpecLearn == InitLearn /\ [][LearnNext]_vars

(***************************************************************************)
(* SpecSM2                                                                 *)
(***************************************************************************)
IdleSession ==
    /\ InitPage
    /\ InitEnv
    /\ back = [c \in Cards |-> c]
    /\ hasApiKey = FALSE

Review(quality) ==
    /\ sm2Count < MaxSM2Reviews
    /\ LET r == calculateNextReview(sm2Card, quality, 0)
       IN  sm2Card' = [easeFactor |-> r.easeFactor,
                       interval |-> r.interval,
                       repetitions |-> r.repetitions]
    /\ sm2Prev' = sm2Card
    /\ sm2Quality' = quality
    /\ sm2Count' = sm2Count + 1
    /\ UNCHANGED <<sm2Fresh, lpHistory, mcvars, avvars, sovars, ucvars, gdvars, sessionvars>>

NextSM2 == \E quality \in Qualities : Review(quality)

InitSM2 ==
    /\ InitCard
    /\ lpHistory = <<>>
    /\ IdleMC
    /\ IdleAV
    /\ IdleSO
    /\ IdleUC
    /\ IdleGD
    /\ IdleSession

SpecSM2 == InitSM2 /\ [][NextSM2]_vars

\* a run of successful reviews of a card that has never been reviewed
InitRun ==
    /\ sm2Card \in [easeFactor : EaseInputs, interval : {0}, repetitions : {0}]
    /\ sm2Prev = sm2Card
    /\ sm2Quality = NoQuality
    /\ sm2Fresh = (sm2Card = FreshCard)
    /\ sm2Count = 0
    /\ lpHistory = <<>>
    /\ IdleMC
    /\ IdleAV
    /\ IdleSO
    /\ IdleUC
    /\ IdleGD
    /\ IdleSession

ReviewRun(quality) ==
    /\ sm2Count < MaxRun
    /\ LET r == calculateNextReview(sm2Card, quality, 0)
       IN  sm2Card' = [easeFactor |-> r.easeFactor,
                       interval |-> r.interval,
                       repetitions |-> r.repetitions]
    /\ sm2Prev' = sm2Card
    /\ sm2Quality' = quality
    /\ sm2Count' = sm2Count + 1
    /\ UNCHANGED <<sm2Fresh, lpHistory, mcvars, avvars, sovars, ucvars, gdvars, sessionvars>>

NextSM2Run == \E quality \in SuccessThreshold..5 : ReviewRun(quality)

SpecSM2Run == InitRun /\ [][NextSM2Run]_vars

\* calculateNextReview called from JavaScript, or through a cast, with any
\* number: the ReviewResult['quality'] type is gone at run time
QualityInputs == (-1)..7

NextSM2Any == \E quality \in QualityInputs : Review(quality)

SpecSM2Any == InitSM2 /\ [][NextSM2Any]_vars

(***************************************************************************)
(* SpecOptions: one call of generateMultipleChoiceOptions on any arguments *)
(***************************************************************************)
AnswerLists == UNION {[1..n -> Texts] : n \in 0..MaxAnswers}

InitOptions ==
    /\ mcArgs \in [correctAnswer : Texts,
                    allAnswers : AnswerLists,
                    count : 1..MaxCount]
    /\ mcOptions = <<>>
    /\ sm2Card = FreshCard
    /\ sm2Prev = FreshCard
    /\ sm2Quality = NoQuality
    /\ sm2Fresh = TRUE
    /\ sm2Count = 0
    /\ lpHistory = <<>>
    /\ IdleAV
    /\ IdleSO
    /\ IdleUC
    /\ IdleGD
    /\ IdleSession

GenerateOptions ==
    /\ mcOptions = <<>>
    /\ mcOptions' \in OptionLists(mcArgs.correctAnswer, mcArgs.allAnswers, mcArgs.count)
    /\ UNCHANGED <<mcArgs, sm2vars, lpHistory, avvars, sovars, ucvars, gdvars, sessionvars>>

NextOptions == GenerateOptions

SpecOptions == InitOptions /\ [][NextOptions]_vars

(***************************************************************************)
(* SpecValidate: one call of validateAnswer on any two answers;            *)
(* SpecLevenshtein: one call of levenshteinDistance on them                *)
(***************************************************************************)
InitValidate ==
    /\ avArgs \in [userAnswer : Answers, correctAnswer : Answers]
    /\ avResult = NoCall
    /\ sm2Card = FreshCard
    /\ sm2Prev = FreshCard
    /\ sm2Quality = NoQuality
    /\ sm2Fresh = TRUE
    /\ sm2Count = 0
    /\ lpHistory = <<>>
    /\ IdleMC
    /\ IdleSO
    /\ IdleUC
    /\ IdleGD
    /\ IdleSession

Validate(validationType) ==
    /\ avResult.call = "none"
    /\ LET result == validateAnswer(avArgs.userAnswer, avArgs.correctAnswer,
                                    validationType)
       IN  avResult' = [call |-> "validateAnswer",
                        type |-> validationType,
                        isCorrect |-> result.isCorrect,
                        similarity |-> result.similarity,
                        distance |-> 0]
    /\ UNCHANGED <<avArgs, sm2vars, lpHistory, mcvars, sovars, ucvars, gdvars, sessionvars>>

NextValidate == \E validationType \in ValidationTypes : Validate(validationType)

SpecValidate == InitValidate /\ [][NextValidate]_vars

Distance ==
    /\ avResult.call = "none"
    /\ avResult' = [call |-> "levenshteinDistance",
                    type |-> "none",
                    isCorrect |-> FALSE,
                    similarity |-> Similarity(0, 1),
                    distance |-> levenshteinDistance(avArgs.userAnswer,
                                                     avArgs.correctAnswer)]
    /\ UNCHANGED <<avArgs, sm2vars, lpHistory, mcvars, sovars, ucvars, gdvars, sessionvars>>

NextLevenshtein == Distance

SpecLevenshtein == InitValidate /\ [][NextLevenshtein]_vars

(***************************************************************************)
(* SpecOrder: one call of getStudyOrder or of sortByDifficulty on any      *)
(* array of cards                                                          *)
(***************************************************************************)
InitOrder ==
    /\ soArgs \in [cards : CardArrays, now : {Today}]
    /\ soResult = NoOrder
    /\ IdleUC
    /\ IdleGD
    /\ sm2Card = FreshCard
    /\ sm2Prev = FreshCard
    /\ sm2Quality = NoQuality
    /\ sm2Fresh = TRUE
    /\ sm2Count = 0
    /\ lpHistory = <<>>
    /\ IdleMC
    /\ IdleAV
    /\ IdleSession

\* both functions sort a copy ([...cards]): the array passed stays as it was
GetStudyOrder(mode) ==
    /\ soResult.call = "none"
    /\ soResult' = [call |-> "getStudyOrder",
                    mode |-> mode,
                    ascending |-> FALSE,
                    cards |-> getStudyOrder(soArgs.cards, mode, soArgs.now),
                    passed |-> soArgs.cards]
    /\ UNCHANGED <<soArgs, sm2vars, lpHistory, mcvars, avvars, ucvars, gdvars, sessionvars>>

SortByDifficulty(ascending) ==
    /\ soResult.call = "none"
    /\ soResult' = [call |-> "sortByDifficulty",
                    mode |-> "none",
                    ascending |-> ascending,
                    cards |-> sortByDifficulty(soArgs.cards, ascending),
                    passed |-> soArgs.cards]
    /\ UNCHANGED <<soArgs, sm2vars, lpHistory, mcvars, avvars, ucvars, gdvars, sessionvars>>

NextOrder ==
    \/ \E mode \in {"due", "difficult"} : GetStudyOrder(mode)
    \/ \E ascending \in BOOLEAN : SortByDifficulty(ascending)

SpecOrder == InitOrder /\ [][NextOrder]_vars

\* ---- one call of getStudyOrder in any mode ----
InitModes ==
    /\ soArgs \in [cards : AllModeArrays, now : {Today}]
    /\ soResult = NoOrder
    /\ IdleUC
    /\ IdleGD
    /\ sm2Card = FreshCard
    /\ sm2Prev = FreshCard
    /\ sm2Quality = NoQuality
    /\ sm2Fresh = TRUE
    /\ sm2Count = 0
    /\ lpHistory = <<>>
    /\ IdleMC
    /\ IdleAV
    /\ IdleSession

GetStudyOrderIn(mode) ==
    /\ soResult.call = "none"
    /\ \E result \in StudyOrderResults(soArgs.cards, mode, soArgs.now) :
           soResult' = [call |-> "getStudyOrder",
                        mode |-> mode,
                        ascending |-> FALSE,
                        cards |-> result,
                        passed |-> soArgs.cards]
    /\ UNCHANGED <<soArgs, sm2vars, lpHistory, mcvars, avvars, ucvars, gdvars, sessionvars>>

NextModes == \E mode \in OrderModes : GetStudyOrderIn(mode)

SpecModes == InitModes /\ [][NextModes]_vars

\* ---- one grading of a card, and the days after it ----
\* the card's nextReviewDate is a day number: new Date() and setDate keep the
\* time of day, so a date is the day it falls on
InitDue ==
    /\ gdCard \in [easeFactor : {MinEaseFactor, DefaultEaseFactor},
                    interval : {0, 1, 6},
                    repetitions : 0..2,
                    nextReviewDate : 0..2]
    /\ gdGraded = NotGraded
    /\ gdNow = 0
    /\ sm2Card = FreshCard
    /\ sm2Prev = FreshCard
    /\ sm2Quality = NoQuality
    /\ sm2Fresh = TRUE
    /\ sm2Count = 0
    /\ lpHistory = <<>>
    /\ IdleMC
    /\ IdleAV
    /\ IdleSO
    /\ IdleUC
    /\ IdleSession

\* a day passes
NextDay ==
    /\ gdNow < MaxDay
    /\ gdNow' = gdNow + 1
    /\ UNCHANGED <<gdCard, gdGraded, sm2vars, lpHistory, mcvars, avvars, sovars,
                   ucvars, sessionvars>>

\* calculateNextReview(card, quality), the result written to the card as
\* handleAnswerResult's updateCard call does
Grade(quality) ==
    /\ gdGraded.quality = NoQuality
    /\ gdCard' = calculateNextReview(gdCard, quality, gdNow)
    /\ gdGraded' = [quality |-> quality, at |-> gdNow]
    /\ UNCHANGED <<gdNow, sm2vars, lpHistory, mcvars, avvars, sovars, ucvars,
                   sessionvars>>

NextDue ==
    \/ NextDay
    \/ \E quality \in Qualities : Grade(quality)

SpecDue == InitDue /\ [][NextDue]_vars

\* ---- updateCard on a stored deck ----
\* the first card is new, the others have been reviewed
InitUpdate ==
    /\ lsDecks = stringifyDecks(<<[id |-> DeckId, updatedAt |-> Date(0),
                                   cards |-> [c \in 1..MaxCards |->
                                                 CreatedCard(c, c > 1)]]>>)
    /\ ucNow = 0
    /\ ucCall = NoUpdate
    /\ sm2Card = FreshCard
    /\ sm2Prev = FreshCard
    /\ sm2Quality = NoQuality
    /\ sm2Fresh = TRUE
    /\ sm2Count = 0
    /\ lpHistory = <<>>
    /\ IdleMC
    /\ IdleAV
    /\ IdleSO
    /\ IdleGD
    /\ IdleSession

\* time passes
Tick ==
    /\ ucCall.call = "none"
    /\ ucNow < MaxTime
    /\ ucNow' = ucNow + 1
    /\ UNCHANGED <<lsDecks, ucCall, sm2vars, lpHistory, mcvars, avvars, sovars,
                   gdvars, sessionvars>>

\* updateCard(deckId, cardId, updates)
UpdateCard(deckId, cardId, updates) ==
    /\ ucCall.call = "none"
    /\ LET decks == getDecksFromStorage(lsDecks)
           deckIndex == findIndex(decks, deckId)
           cardIndex == IF deckIndex = NoIndex THEN NoIndex
                        ELSE findIndex(decks[deckIndex].cards, cardId)
           now == ucNow
           call == [deckId |-> deckId, cardId |-> cardId, updates |-> updates,
                    now |-> now, data |-> lsDecks]
       IN  IF deckIndex = NoIndex \/ cardIndex = NoIndex
           THEN /\ ucCall' = Spread(call, [call |-> "threw"])
                /\ UNCHANGED lsDecks
           ELSE /\ lsDecks' = stringifyDecks(
                       [decks EXCEPT ![deckIndex] =
                           [@ EXCEPT !.cards[cardIndex] =
                                         updatedCard(@, updates, now),
                                     !.updatedAt = Date(now)]])
                /\ ucCall' = Spread(call, [call |-> "returned"])
    /\ UNCHANGED <<ucNow, sm2vars, lpHistory, mcvars, avvars, sovars, gdvars, sessionvars>>

NextUpdate ==
    \/ Tick
    \/ \E cardId \in CardIds, updates \in PartialCards(ucNow) :
           UpdateCard(DeckId, cardId, updates)
    \/ \E deckId \in {DeckId, NoSuchId}, cardId \in CardIds \cup {NoSuchId},
          updates \in SuppliedValues(ucNow) :
           /\ deckId = NoSuchId \/ cardId = NoSuchId
           /\ UpdateCard(deckId, cardId, updates)

SpecUpdate == InitUpdate /\ [][NextUpdate]_vars


(***************************************************************************)
(* Scheduler claims (SpecSM2)                                              *)
(***************************************************************************)

\* C2 (SpecSM2): for quality >= 3 the result has repetitions = previous repetitions + 1
\* and interval 1 (previous repetitions 0), 6 (previous repetitions 1), else
\* round(previous interval * the ease factor the card had BEFORE this call);
\* repetitions 2, interval 6, ease 2.5, quality 4 gives interval 15,
\* repetitions 3.
C2_SuccessInterval ==
    (sm2Quality # NoQuality /\ sm2Quality >= 3) =>
        /\ sm2Card.repetitions = sm2Prev.repetitions + 1
        /\ sm2Card.interval =
              IF sm2Prev.repetitions = 0 THEN 1
              ELSE IF sm2Prev.repetitions = 1 THEN 6
              ELSE (sm2Prev.interval * sm2Prev.easeFactor + 50) \div 100
        /\ (/\ sm2Prev = [easeFactor |-> 250, interval |-> 6, repetitions |-> 2]
            /\ sm2Quality = 4)
           => (sm2Card.interval = 15 /\ sm2Card.repetitions = 3)

\* a third successful review whose ease factor changes in the same call
C2_Witness ==
    /\ sm2Quality = 3
    /\ sm2Prev = [easeFactor |-> 250, interval |-> 6, repetitions |-> 2]
    /\ sm2Card.interval = 15
    /\ sm2Card.easeFactor = 236

\* C3: for every quality in {0,1,2} and every prior card state the result has
\* repetitions = 0 and interval = 0.
C3_FailureResets ==
    (sm2Quality \in {0, 1, 2}) =>
        (sm2Card.repetitions = 0 /\ sm2Card.interval = 0)

C3_Witness ==
    /\ sm2Quality = 2
    /\ sm2Prev.repetitions = 3
    /\ sm2Prev.interval = 10
    /\ sm2Card.repetitions = 0
    /\ sm2Card.interval = 0

\* C4: along any sequence of results applied to a freshly created card,
\* interval = 0 exactly when repetitions = 0, and repetitions = 0 whenever the
\* most recent quality was below 3.
C4_IntervalZeroIffNoRepetitions ==
    sm2Fresh =>
        /\ (sm2Card.interval = 0) <=> (sm2Card.repetitions = 0)
        /\ (sm2Quality \in {0, 1, 2}) => sm2Card.repetitions = 0

\* a fresh card failed after two successes
C4_Witness ==
    /\ sm2Fresh
    /\ sm2Count = 3
    /\ sm2Prev.repetitions = 2
    /\ sm2Prev.interval = 6
    /\ sm2Quality \in {0, 1, 2}
    /\ sm2Card.interval = 0

(***************************************************************************)
(* Session claims                                                          *)
(***************************************************************************)

\* C1: calculateNextReview returns easeFactor >= 1.3 for every card and every
\* quality in 0..5, so the ease factor persisted for a card that started at
\* 2.5 is never below 1.3, whatever reviews the sessions wrote (SpecReload).
C1_EaseFactorFloor ==
    /\ \A c \in Cards : store[c].easeFactor >= 130
    /\ \A c \in Cards, quality \in Qualities :
          calculateNextReview(deck[c], quality, 0).easeFactor >= 130

\* a third failed review in a row: 2.5 - 3 * 0.54 is below the floor
C1_Witness ==
    \E c \in Cards :
        /\ deck[c].easeFactor = 142
        /\ store[c].easeFactor = 130
        /\ store[c].repetitions = 0

\* C5: the summary saved when a flashcards, test, learn or ai-quiz session
\* over N cards completes has cardsStudied = N and correctAnswers = the
\* number of the session's answers of quality >= 3, the last one included.
C5_SummaryCountsEveryAnswer ==
    \A i \in 1..Len(sessions) :
        sessions[i].mode # "match" =>
            /\ sessions[i].cardsStudied = sessions[i].total
            /\ sessions[i].correctAnswers = sessions[i].givenCorrect

\* C6: in match mode over cards with distinct answers, once every pair is
\* matched the timer is stopped (matchEndTime set) and completion is on its
\* way: the 2s callback is pending or the summary with cardsStudied =
\* correctAnswers = P is saved.
AllPairsMatched ==
    /\ matchPairs # <<>>
    /\ \A c, d \in Cards : c # d => back[c] # back[d]
    /\ \A i \in 0..(Len(matchPairs) - 1) : i \in matchedPairs
C6_AllMatchedCompletes ==
    (interactionType = "match" /\ sessionStarted /\ AllPairsMatched) =>
        /\ matchEndTime
        /\ \/ \E i \in 1..Len(timers) : timers[i].kind = "complete"
           \/ \E i \in 1..Len(sessions) :
                 /\ sessions[i].cardsStudied = Len(matchPairs)
                 /\ sessions[i].correctAnswers = Len(matchPairs)

\* C7: a new learn-mode card is at flashcard after two correct answers and at
\* written after two more; two incorrect answers in a row that start at
\* written always leave the card at flashcard (SpecLearn).
LearnType == cardProgress[1].currentQuestionType
TypeAfter(i) == IF i = Len(lpHistory) THEN LearnType ELSE lpHistory[i + 1].type
C8_ResetCancelsAutoAdvance ==
    [][\A i \in 1..Len(timers) :
          (/\ timers[i].kind = "answer"
           /\ timers[i].stale
           /\ timers' = RemoveAt(timers, i))
          => /\ store' = store
             /\ cardsStudied' = cardsStudied
             /\ correctAnswers' = correctAnswers
             /\ currentCardIndex' = currentCardIndex]_vars

\* C9: an option-generation request that was in flight at a resetSession
\* changes neither multipleChoiceOptions nor isGeneratingOptions when it
\* completes (SpecQuiz).
C9_ResetCancelsGeneration ==
    [][\A i \in 1..Len(requests) :
          (requests[i].stale /\ requests' = RemoveAt(requests, i))
          => /\ multipleChoiceOptions' = multipleChoiceOptions
             /\ isGeneratingOptions' = isGeneratingOptions]_vars

\* C10: no two generateConfusingOptions calls for the same card are in
\* flight at the same time (SpecQuiz).
C10_OneRequestPerCard ==
    \A i, j \in 1..Len(requests) :
        i # j => requests[i].card # requests[j].card

\* C11: once a started session's summary is saved, no step other than
\* resetSession changes cardsStudied, correctAnswers, the index or a persisted
\* card, and no further summary is saved.
C11_NoMutationAfterCompletion ==
    [][(summarySaved /\ sessionStarted /\ summarySaved')
          => /\ cardsStudied' = cardsStudied
             /\ correctAnswers' = correctAnswers
             /\ currentCardIndex' = currentCardIndex
             /\ store' = store
             /\ sessions' = sessions]_vars

\* C12: the reviews a session writes are written in the order of its card
\* sequence (the index written never goes down between two resets), and the
\* review write and the aiGeneratedOptions cache write of a card never
\* overlap: each leaves the fields the other one wrote as they are (SpecQuiz).
reviewFields(card) ==
    <<card.easeFactor, card.interval, card.repetitions, card.difficulty, card.reviewed>>
C12_ReviewWritesInOrder ==
    [][/\ (lastWritten # NoIndex /\ lastWritten' # NoIndex)
             => lastWritten' >= lastWritten
       /\ \A c \in Cards :
             /\ store[c].aiOptions => store'[c].aiOptions
             /\ store'[c].aiOptions # store[c].aiOptions
                   => reviewFields(store'[c]) = reviewFields(store[c])]_vars

\* cards 1 and 2 reviewed in order, the first one after its options were cached,
\* and its second option request answered after its review was written
C12_Witness ==
    /\ lastWritten = 1
    /\ store[1].reviewed /\ store[1].aiOptions
    /\ store[2].reviewed

\* C13: when updateCard fails while an answer is recorded, handleAnswerResult
\* ends with that failure and the answer is not counted: cardsStudied,
\* correctAnswers, the index and the stored cards stay as they were and no
\* summary is saved (SpecFail).
C13_UpdateFailurePropagates ==
    [][rejected' > rejected
         => /\ cardsStudied' = cardsStudied
            /\ correctAnswers' = correctAnswers
            /\ currentCardIndex' = currentCardIndex
            /\ store' = store
            /\ sessions' = sessions
            /\ showCompleteAlert' = showCompleteAlert]_vars

\* the answer to the last card of a session failed to be recorded after the
\* earlier ones were: the session is still on that card, without a summary
C13_Witness ==
    /\ rejected > 0
    /\ sessionStarted
    /\ Len(studyCards) > 1
    /\ cardsStudied = Len(studyCards) - 1
    /\ currentCardIndex = Len(studyCards) - 1
    /\ sessions = <<>>

\* C14: calculateNextReview called with a quality outside 0..5 is rejected
\* and returns no scheduling result: nothing is computed from the value, so
\* the card the call was made for stays as it was (SpecSM2Any).
C14_OutOfRangeQualityRejected ==
    [][(sm2Count' > sm2Count /\ sm2Quality' \notin Qualities)
         => sm2Card' = sm2Card]_vars

\* C15: every calculateNextReview call, of a success or of a failure, changes
\* the ease factor by +0.10, 0, -0.14, -0.32, -0.54, -0.80 for quality 5, 4,
\* 3, 2, 1, 0 and then raises it to 1.3 if it is below; nothing bounds it
\* from above (SpecSM2, hundredths).
EaseChange ==
    [q \in Qualities |->
        CASE q = 5 -> 10
          [] q = 4 -> 0
          [] q = 3 -> -14
          [] q = 2 -> -32
          [] q = 1 -> -54
          [] q = 0 -> -80]
C15_EaseFactorUpdate ==
    sm2Count > 0 =>
        LET changed == sm2Prev.easeFactor + EaseChange[sm2Quality] IN
        sm2Card.easeFactor = IF changed < 130 THEN 130 ELSE changed

\* three quality-5 reviews in a row took the ease factor from 2.8 to 3.1
C15_Witness ==
    /\ sm2Count = 3
    /\ sm2Quality = 5
    /\ sm2Card.easeFactor = 310

\* C16: a written answer is passed to the scheduler with quality 5 when the
\* validator found it correct with similarity above 0.95, 4 when correct with
\* similarity 0.95 or less, 2 when incorrect; and the callback of an incorrect
\* written answer leaves its card with repetitions 0 and interval 0 and
\* correctAnswers as it was (Spec; similarity in hundredths).
C16_WrittenQuality ==
    [][/\ (answerFeedback = NoFeedback /\ answerFeedback' # NoFeedback)
            => /\ Len(timers') = Len(timers) + 1
               /\ LET t == timers'[Len(timers')]
                      r == answerFeedback'
                  IN  /\ t.kind = "answer"
                      /\ (r.isCorrect /\ r.similarity > 95) => t.quality = 5
                      /\ (r.isCorrect /\ r.similarity <= 95) => t.quality = 4
                      /\ ~r.isCorrect => t.quality = 2
       /\ \A i \in 1..Len(timers) :
             (/\ timers' = RemoveAt(timers, i)
              /\ timers[i].kind = "answer"
              /\ timers[i].delay = WrittenDelay
              /\ timers[i].quality = 2)
             => LET card == timers[i].cl.cards[timers[i].cl.idx + 1] IN
                /\ store'[card].repetitions = 0
                /\ store'[card].interval = 0
                /\ store'[card].reviewed
                /\ correctAnswers' = correctAnswers
                /\ answeredCorrect' = answeredCorrect]_vars

\* a test session whose first answer, an incorrect one, has been recorded
C16_Witness ==
    /\ interactionType = "test"
    /\ sessionStarted
    /\ cardsStudied = 1
    /\ correctAnswers = 0
    /\ currentCardIndex = 1
    /\ answerFeedback = NoFeedback
    /\ store[studyCards[1]].reviewed
    /\ store[studyCards[1]].difficulty = "medium"
    /\ store[studyCards[1]].repetitions = 0

\* C17: a front tile and a back tile are judged a match only when they belong
\* to the same pair, also when two cards have the same back text: a step that
\* marks tiles matched marks one pair, the pair of the tile selected before
\* (SpecMatch).
C17_MatchBySamePair ==
    [][matchedPairs' # matchedPairs /\ matchedPairs' # {}
         => \E i \in 0..(Len(matchPairs) - 1) :
               /\ matchedPairs' = matchedPairs \cup {i}
               /\ selectedFront = i \/ selectedBack = i]_vars

\* C18: option generation never ends an ai-quiz session.  Whatever the outcome
\* (no API key, the request fails, the request succeeds) isGeneratingOptions
\* becomes false again with a non-empty list of options to choose from, and a
\* request that settles changes neither the index nor the counts and
\* completes no session (SpecQuizLive).
C18_GenerationNeverFatal ==
    /\ [](/\ isGeneratingOptions => requests # <<>>
          /\ (/\ interactionType = "ai-quiz"
              /\ sessionStarted
              /\ studyCards # <<>>
              /\ ~isGeneratingOptions) => multipleChoiceOptions # {})
    /\ [][Len(requests') < Len(requests)
            => /\ ~isGeneratingOptions'
               /\ multipleChoiceOptions' # {}
               /\ currentCardIndex' = currentCardIndex
               /\ cardsStudied' = cardsStudied
               /\ correctAnswers' = correctAnswers
               /\ sessionStarted' = sessionStarted
               /\ showCompleteAlert' = showCompleteAlert
               /\ sessions' = sessions]_vars
    /\ isGeneratingOptions ~> (~isGeneratingOptions /\ multipleChoiceOptions # {})

\* both requests made for the first card have failed: the session is on that
\* card with the fallback options, nothing counted, nothing cached
C18_Witness ==
    /\ hasApiKey
    /\ interactionType = "ai-quiz"
    /\ sessionStarted
    /\ studyCards # <<>>
    /\ requests = <<>>
    /\ ~isGeneratingOptions
    /\ currentCardIndex = 0
    /\ cardsStudied = 0
    /\ ~deck[studyCards[1]].aiOptions
    /\ multipleChoiceOptions = generateMultipleChoiceOptions(studyCards[1], studyCards)
    /\ sessions = <<>>

\* C19: for every correctAnswer, allAnswers and count >= 1 the list returned
\* by generateMultipleChoiceOptions holds the correct answer exactly once and
\* no other entry that equals it when case is ignored; when allAnswers holds
\* no other answer the list is the correct answer alone (SpecOptions).
OccurrencesIgnoringCase(text, list) ==
    Cardinality({i \in 1..Len(list) : list[i].word = text.word})
C19_CorrectAnswerOnce ==
    mcOptions # <<>> =>
        /\ \E i \in 1..Len(mcOptions) : mcOptions[i] = mcArgs.correctAnswer
        /\ OccurrencesIgnoringCase(mcArgs.correctAnswer, mcOptions) = 1
        /\ (\A i \in 1..Len(mcArgs.allAnswers) :
                mcArgs.allAnswers[i].word = mcArgs.correctAnswer.word)
              => mcOptions = <<mcArgs.correctAnswer>>

\* "Paris" asked for among "paris", "Rome", "Paris": the list returned holds
\* "Paris" and "Rome"
C19_Witness ==
    /\ mcArgs.correctAnswer = [word |-> "paris", capital |-> TRUE]
    /\ mcArgs.allAnswers = <<[word |-> "paris", capital |-> FALSE],
                             [word |-> "rome", capital |-> TRUE],
                             [word |-> "paris", capital |-> TRUE]>>
    /\ mcArgs.count = 4
    /\ Len(mcOptions) = 2

\* C20: the wrong answers in the list returned are pairwise distinct, and
\* there are min(count - 1, number of distractors available) of them, also
\* when allAnswers holds the same wrong answer more than once (SpecOptions).
WrongAnswers(list) ==
    SelectSeq(list, LAMBDA answer : answer.word # mcArgs.correctAnswer.word)
Distractors ==
    {mcArgs.allAnswers[i] : i \in 1..Len(mcArgs.allAnswers)}
        \ {t \in Texts : t.word = mcArgs.correctAnswer.word}
C20_DistinctWrongAnswers ==
    mcOptions # <<>> =>
        LET wrong == WrongAnswers(mcOptions)
            available == Cardinality(Distractors)
        IN  /\ \A i, j \in 1..Len(wrong) : i # j => wrong[i] # wrong[j]
            /\ Len(wrong) = IF mcArgs.count - 1 < available
                            THEN mcArgs.count - 1 ELSE available

\* C21: flexible is the most permissive validation type: an answer that
\* validateAnswer accepts under exact, case-insensitive, typo-tolerant or
\* keyword is accepted under flexible as well (SpecValidate).
C21_FlexibleMostPermissive ==
    (avResult.call = "validateAnswer" /\ avResult.isCorrect)
        => validateAnswer(avArgs.userAnswer, avArgs.correctAnswer, "flexible").isCorrect

\* "flowerz" for "flowers" was accepted under typo-tolerant (similarity 6/7)
C21_Witness ==
    /\ avResult.call = "validateAnswer"
    /\ avResult.type = "typo-tolerant"
    /\ avResult.isCorrect
    /\ avResult.similarity.num < avResult.similarity.den

\* The edit distance by its recurrence on the last characters: drop the last
\* character of a (a deletion), of b (an insertion), or of both (nothing when
\* they are equal, a substitution otherwise).
RECURSIVE EditDistance(_, _)
EditDistance(a, b) ==
    IF a = <<>> THEN Len(b)
    ELSE IF b = <<>> THEN Len(a)
    ELSE LET a1 == SubSeq(a, 1, Len(a) - 1)
             b1 == SubSeq(b, 1, Len(b) - 1)
             both == EditDistance(a1, b1) + (IF a[Len(a)] = b[Len(b)] THEN 0 ELSE 1)
             del == EditDistance(a1, b) + 1
             ins == EditDistance(a, b1) + 1
             least == IF del < ins THEN del ELSE ins
         IN  IF both < least THEN both ELSE least

Pari == <<"P", "a", "r", "i">>
Paris == <<"P", "a", "r", "i", "s">>

\* C22: under typo-tolerant validation similarity = 1 - d / max(len(user),
\* len(correct)), d being the Levenshtein distance of the lower-cased trimmed
\* answers, and isCorrect holds iff similarity >= 0.85; "Pari" for "Paris"
\* gets similarity 0.8 and is rejected, and is accepted under flexible
\* (SpecValidate).
C22_TypoTolerantSimilarity ==
    /\ (/\ avResult.call = "validateAnswer"
        /\ avResult.type = "typo-tolerant"
        /\ trim(avArgs.userAnswer) # <<>>)
          => LET user == trim(avArgs.userAnswer)
                 correct == trim(avArgs.correctAnswer)
                 d == EditDistance(toLowerCaseString(user), toLowerCaseString(correct))
                 longest == IF Len(user) > Len(correct) THEN Len(user) ELSE Len(correct)
             IN  /\ avResult.similarity.den > 0
                 /\ avResult.similarity.num * longest
                       = (longest - d) * avResult.similarity.den
                 /\ avResult.isCorrect <=> (longest - d) * 100 >= 85 * longest
    /\ (avArgs.userAnswer = Pari /\ avArgs.correctAnswer = Paris)
          => /\ avResult.type = "typo-tolerant"
                  => (~avResult.isCorrect
                      /\ avResult.similarity.num * 5 = 4 * avResult.similarity.den)
             /\ avResult.type = "flexible" => avResult.isCorrect

\* "Pari" for "Paris" has been validated under typo-tolerant
C22_Witness ==
    /\ avArgs.userAnswer = Pari
    /\ avArgs.correctAnswer = Paris
    /\ avResult.call = "validateAnswer"
    /\ avResult.type = "typo-tolerant"
    /\ ~avResult.isCorrect

\* The strings one insertion, deletion or substitution away from str, and the
\* least number of such edits that turn a into b.  Strings longer than
\* MaxTextLen are left out: a shortest sequence of edits can be ordered so
\* that no string in it is longer than the longer of a and b.
OneEdit(str) ==
    {RemoveAt(str, i) : i \in 1..Len(str)}
    \cup {[str EXCEPT ![i] = c] : i \in 1..Len(str), c \in Alphabet}
    \cup {SubSeq(str, 1, i) \o <<c>> \o SubSeq(str, i + 1, Len(str)) :
             i \in IF Len(str) < MaxTextLen THEN 0..Len(str) ELSE {}, c \in Alphabet}
RECURSIVE WithinEdits(_, _)
WithinEdits(str, k) ==
    IF k = 0 THEN {str}
    ELSE LET nearer == WithinEdits(str, k - 1)
         IN  nearer \cup UNION {OneEdit(t) : t \in nearer}
MinEdits(a, b) ==
    CHOOSE k \in 0..MaxTextLen :
        /\ b \in WithinEdits(a, k)
        /\ k > 0 => b \notin WithinEdits(a, k - 1)

\* C23: levenshteinDistance(a, b) is the least number of single-character
\* insertions, deletions and substitutions that turn a into b, the empty
\* string included; it is 0 iff a = b, the same for (b, a), and at most the
\* length of the longer string (SpecLevenshtein).
C23_LevenshteinIsEditDistance ==
    avResult.call = "levenshteinDistance" =>
        LET a == avArgs.userAnswer
            b == avArgs.correctAnswer
            d == avResult.distance
            short == UNION {[1..n -> Alphabet] : n \in 0..MaxTextLen}
        IN  /\ (a \in short /\ b \in short) => d = MinEdits(a, b)
            /\ d = EditDistance(a, b)
            /\ d = 0 <=> a = b
            /\ d = levenshteinDistance(b, a)
            /\ d <= (IF Len(a) > Len(b) THEN Len(a) ELSE Len(b))

\* two strings of three characters that are two edits apart
C23_Witness ==
    /\ avResult.call = "levenshteinDistance"
    /\ Len(avArgs.userAnswer) = 3
    /\ Len(avArgs.correctAnswer) = 3
    /\ avResult.distance = 2

\* C24: for every user answer, correct answer and validation type the
\* similarity validateAnswer returns lies in [0, 1]; a user answer that is
\* empty after trimming gets isCorrect false and similarity 0; and isCorrect
\* implies similarity > 0 (SpecValidate).
C24_SimilarityInUnitInterval ==
    avResult.call = "validateAnswer" =>
        /\ avResult.similarity.den > 0
        /\ 0 <= avResult.similarity.num
        /\ avResult.similarity.num <= avResult.similarity.den
        /\ trim(avArgs.userAnswer) = <<>>
              => (~avResult.isCorrect /\ avResult.similarity.num = 0)
        /\ avResult.isCorrect => avResult.similarity.num > 0

\* C25: getStudyOrder(cards, 'due') returns the cards with every due card
\* (nextReviewDate <= now) before every card that is not due, the due cards
\* in ascending order of nextReviewDate and the others likewise (SpecOrder).
C25_DueFirst ==
    (soResult.call = "getStudyOrder" /\ soResult.mode = "due") =>
        LET r == soResult.cards
            due(c) == c.nextReviewDate <= soArgs.now
        IN  /\ Len(r) = Len(soArgs.cards)
            /\ \A c \in Range(soArgs.cards) : c \in Range(r)
            /\ \A i, j \in 1..Len(r) :
                  i < j => /\ ~(~due(r[i]) /\ due(r[j]))
                           /\ due(r[i]) = due(r[j])
                                 => r[i].nextReviewDate <= r[j].nextReviewDate

\* three cards passed with the one that is not due first and the one due
\* longest last: the order returned is the reverse
C25_Witness ==
    /\ soResult.call = "getStudyOrder"
    /\ soResult.mode = "due"
    /\ Len(soArgs.cards) = 3
    /\ soArgs.cards[1].nextReviewDate = 2
    /\ soArgs.cards[2].nextReviewDate = 1
    /\ soArgs.cards[3].nextReviewDate = 0
    /\ soResult.cards = <<soArgs.cards[3], soArgs.cards[2], soArgs.cards[1]>>

\* C26: getStudyOrder(cards, 'difficult') puts the most difficult cards
\* first: of any two cards in the result the earlier one has the lower or
\* the same score easeFactor * (repetitions + 1) (SpecOrder).
C26_MostDifficultFirst ==
    (soResult.call = "getStudyOrder" /\ soResult.mode = "difficult") =>
        \A i, j \in 1..Len(soResult.cards) :
            i < j => soResult.cards[i].easeFactor * (soResult.cards[i].repetitions + 1)
                       <= soResult.cards[j].easeFactor * (soResult.cards[j].repetitions + 1)

\* C27: sortByDifficulty(cards, false) returns the cards in non-increasing
\* order of easeFactor * (repetitions + 1), sortByDifficulty(cards, true)
\* in non-decreasing order; cards of equal score keep the order they were
\* passed in, and the array passed is not modified (SpecOrder).
Score(card) == card.easeFactor * (card.repetitions + 1)
C28_UpdateCardRoundTrip ==
    ucCall.call = "returned" =>
        LET before == getCardById(ucCall.data, ucCall.deckId, ucCall.cardId)
            after == getCardById(lsDecks, ucCall.deckId, ucCall.cardId)
            kept == {"id", "createdAt", "updatedAt"}
        IN  /\ \A key \in DOMAIN ucCall.updates \ kept :
                   Get(after, key) = ucCall.updates[key]
            /\ \A key \in CardFields \ (DOMAIN ucCall.updates \cup kept) :
                   Get(after, key) = Get(before, key)
            /\ Get(after, "id") = Get(before, "id")
            /\ Get(after, "createdAt") = Get(before, "createdAt")
            /\ Get(after, "updatedAt") = Date(ucCall.now)
            /\ Get(after, "updatedAt").date >= Get(before, "updatedAt").date

\* a review's values written at a later time to a card reviewed before, in a
\* call that also supplies id, createdAt and updatedAt and leaves front out
C28_Witness ==
    /\ ucCall.call = "returned"
    /\ ucCall.now > 0
    /\ DOMAIN ucCall.updates = CardFields \ {"front"}
    /\ ucCall.updates["lastReviewDate"] = Date(ucCall.now)
    /\ Get(getCardById(ucCall.data, ucCall.deckId, ucCall.cardId),
           "lastReviewDate") = Date(0)
    /\ Get(getCardById(lsDecks, ucCall.deckId, ucCall.cardId),
           "lastReviewDate") = Date(ucCall.now)

\* C29: a resetSession leaves the index, cardsStudied and correctAnswers at 0
\* and the card-progress map empty, and leaves the cards in the repository,
\* with every update written to them, as they were.
C29_ResetDiscardsSessionOnly ==
    [][resetSession =>
          /\ currentCardIndex' = 0
          /\ cardsStudied' = 0
          /\ correctAnswers' = 0
          /\ cardProgress' = EmptyMap
          /\ store' = store]_vars

\* the session has been reset after an answer was counted, stored on the
\* card and entered in the card-progress map
C29_Witness ==
    /\ ~sessionStarted
    /\ lastWritten = NoIndex
    /\ currentCardIndex = 0
    /\ cardsStudied = 0
    /\ correctAnswers = 0
    /\ cardProgress = EmptyMap
    /\ answered > 0
    /\ \E c \in Cards : store[c].reviewed

\* the tiles shown locked when the indices in matched are marked matched
LockedTiles(matched) == {<<type, index>> : type \in {"front", "back"}, index \in matched}

\* C30: in match mode (SpecMatch) a click on a locked tile changes neither
\* the selections nor the matched set; a click never takes a tile out of the
\* matched set; a click that makes a match leaves both tiles of the match
\* locked and both selections cleared; and the tiles a click locks are tiles
\* of the match it made: the tile clicked and the tile selected on the other
\* side.
C30_MatchedTilesLocked ==
    [][\A index \in 0..(MaxCards - 1), type \in {"front", "back"} :
          handleMatchClick(index, type) =>
              LET clicked == <<type, index>>
                  selected == IF type = "front" THEN <<"back", selectedBack>>
                                                ELSE <<"front", selectedFront>>
              IN  /\ index \in matchedPairs =>
                         /\ matchedPairs' = matchedPairs
                         /\ selectedFront' = selectedFront
                         /\ selectedBack' = selectedBack
                  /\ matchedPairs \subseteq matchedPairs'
                  /\ matchedPairs' # matchedPairs =>
                         /\ {clicked, selected} \subseteq LockedTiles(matchedPairs')
                         /\ selectedFront' = NoIndex
                         /\ selectedBack' = NoIndex
                  /\ LockedTiles(matchedPairs') \ LockedTiles(matchedPairs)
                         \subseteq {clicked, selected}]_vars

\* C31: in match mode (SpecMatch) no step writes a card: the stored cards
\* and the number of review writes stay as they are through every click,
\* match or mismatch, and every callback.  A click that is a mismatch (it
\* sets the 0.5 s callback) leaves the matched set as it was, and when that
\* callback runs both selections are null and the matched set is unchanged.
C31_MatchWritesNoCard ==
    [][/\ store' = store
       /\ deck' = deck
       /\ reviewCount' = reviewCount
       /\ (/\ Len(timers') > Len(timers)
           /\ timers'[Len(timers')].kind = "clear") => matchedPairs' = matchedPairs
       /\ \A i \in 1..Len(timers) :
              (timers[i].kind = "clear" /\ fireTimer(i)) =>
                  /\ selectedFront' = NoIndex
                  /\ selectedBack' = NoIndex
                  /\ matchedPairs' = matchedPairs]_vars

\* a mismatch has just been made: both tiles are still selected, the callback
\* that clears them is pending, and no card has been written
C31_Witness ==
    /\ interactionType = "match"
    /\ sessionStarted
    /\ selectedFront # NoIndex
    /\ selectedBack # NoIndex
    /\ selectedFront # selectedBack
    /\ \E i \in 1..Len(timers) : timers[i].kind = "clear"
    /\ matchedPairs = {}
    /\ \A c \in Cards : store[c] = NewCard

\* C32: in a learn session every card's progress entry has had at most one
\* answer applied to it, and so every card is still at multiple-choice.
C32_LearnStaysMultipleChoice ==
    (interactionType = "learn" /\ sessionStarted) =>
        \A c \in DOMAIN cardProgress :
            /\ cardProgress[c].correctCount + cardProgress[c].incorrectCount <= 1
            /\ cardProgress[c].currentQuestionType = "multiple-choice"

\* C33: whenever a multiple-choice question is on the screen for the current
\* card, in learn or in ai-quiz mode, and no options are being generated,
\* the options shown include that card's back.
C33_OptionsHoldCorrectAnswer ==
    (/\ QuestionShown
     /\ interactionType \in {"learn", "ai-quiz"}
     /\ getCurrentQuestionType = "multiple-choice"
     /\ ~isGeneratingOptions)
        => BackText(currentCard) \in multipleChoiceOptions

\* multiple-choice < flashcard < written
TypeLevel(type) ==
    IF type = "multiple-choice" THEN 0 ELSE IF type = "flashcard" THEN 1 ELSE 2

\* C34: for any sequence of answers applied by updateLearnProgress to one
\* card (SpecLearn), an answer moves the question type by at most one level,
\* up only when it is correct and down only when it is incorrect, never
\* below multiple-choice or above written; incorrectCount is 0 or 1 after
\* every update; and correctCount never decreases.
C34_LearnProgressSteps ==
    /\ [](cardProgress[1].incorrectCount \in {0, 1})
    /\ [](TypeLevel(LearnType) \in 0..2)
    /\ [][\E isCorrect \in BOOLEAN :
             /\ answerLearn(isCorrect)
             /\ LET before == TypeLevel(cardProgress[1].currentQuestionType)
                    after == TypeLevel(cardProgress'[1].currentQuestionType)
                IN  /\ after \in {before - 1, before, before + 1}
                    /\ isCorrect => after >= before
                    /\ ~isCorrect => after <= before
             /\ cardProgress'[1].correctCount >= cardProgress[1].correctCount]_vars

\* a card at written takes an incorrect answer and then a correct one: it is
\* still at written, with one incorrect answer counted and all four correct
\* answers
C34_Witness ==
    /\ Len(lpHistory) = 5
    /\ lpHistory[4].type = "written"
    /\ ~lpHistory[4].isCorrect
    /\ lpHistory[5].isCorrect
    /\ LearnType = "written"
    /\ cardProgress[1].incorrectCount = 1
    /\ cardProgress[1].correctCount = 4

\* C35: in every state of a flashcards, test or learn session over N cards
\* (Spec), 0 <= correctAnswers <= cardsStudied <= N, the index is within
\* 0..N-1, cardsStudied is the number of answers recorded since the session
\* started, and no step other than a reset or the start of a session takes
\* the index down.
C35_SessionCounters ==
    /\ []((sessionStarted /\ interactionType # "match" /\ studyCards # <<>>) =>
             /\ 0 <= correctAnswers
             /\ correctAnswers <= cardsStudied
             /\ cardsStudied <= Len(studyCards)
             /\ currentCardIndex \in 0..(Len(studyCards) - 1)
             /\ cardsStudied = answered)
    /\ [][currentCardIndex' < currentCardIndex => (resetSession \/ startSession)]_vars

\* C36: along a run of successful reviews (quality 3..5) of a card that
\* starts with repetitions 0, interval 0 and an ease factor of at least 1.3
\* (SpecSM2Run), every interval returned is greater than the one before:
\* 1, then 6, then round(interval * easeFactor) of the card as it was.
C36_IntervalsIncrease ==
    sm2Count >= 1 =>
        /\ sm2Card.interval > sm2Prev.interval
        /\ sm2Count = 1 => sm2Card.interval = 1
        /\ sm2Count = 2 => sm2Card.interval = 6
        /\ sm2Count >= 3 =>
               sm2Card.interval = RoundHundredths(sm2Prev.interval * sm2Prev.easeFactor)

\* six reviews of quality 3 of a card at the 1.3 floor: the slowest growth
C36_Witness ==
    /\ sm2Count = MaxRun
    /\ sm2Card.repetitions = MaxRun
    /\ sm2Prev.easeFactor = MinEaseFactor
    /\ sm2Card.easeFactor = MinEaseFactor
    /\ sm2Quality = SuccessThreshold
    /\ sm2Card.interval > sm2Prev.interval

\* C37: the nextReviewDate calculateNextReview returns is the grading day
\* plus interval days, whatever the card's nextReviewDate was before, and so
\* never before the grading day (SpecDue).  A card graded with quality < 3
\* is due on the grading day and every day after; a card graded with
\* quality >= 3 is not due on any day before the grading day plus interval
\* and is due on that day and every day after.
C37_DueAfterInterval ==
    gdGraded.quality # NoQuality =>
        /\ gdCard.nextReviewDate = gdGraded.at + gdCard.interval
        /\ gdCard.nextReviewDate >= gdGraded.at
        /\ gdGraded.quality < SuccessThreshold => isDue(gdCard, gdNow)
        /\ gdGraded.quality >= SuccessThreshold =>
               (isDue(gdCard, gdNow) <=> gdNow >= gdGraded.at + gdCard.interval)

\* a card whose review date was two days ahead is graded 4 on day 1 for the
\* second time in a row: on day 7, six days later, it is due
C37_Witness ==
    /\ gdGraded = [quality |-> 4, at |-> 1]
    /\ gdCard.repetitions = 2
    /\ gdCard.interval = 6
    /\ gdNow = 7
    /\ isDue(gdCard, gdNow)

\* card is not in the unknown group: it has repetitions or a last review
IsKnown(card) == card.repetitions # 0 \/ card.lastReviewDate

\* C38: in every mode getStudyOrder returns the cards passed, each exactly
\* once, and leaves the array passed as it was (SpecModes).  In 'unknown'
\* mode the result is the unknown cards in ascending order of createdAt
\* followed by the other cards in the order they were passed.
C38_StudyOrderIsPermutation ==
    soResult.call = "getStudyOrder" =>
        LET result == soResult.cards
            n == Len(soArgs.cards)
        IN  /\ Len(result) = n
            /\ \A i \in 1..n : \E j \in 1..n : result[j] = soArgs.cards[i]
            /\ \A i, j \in 1..n : result[i] = result[j] => i = j
            /\ soResult.passed = soArgs.cards
            /\ soResult.mode = "unknown" =>
                   \A i, j \in 1..n : i < j =>
                       /\ IsKnown(result[i]) => IsKnown(result[j])
                       /\ (~IsKnown(result[i]) /\ ~IsKnown(result[j]))
                              => result[i].createdAt <= result[j].createdAt
                       /\ (IsKnown(result[i]) /\ IsKnown(result[j]))
                              => result[i].id < result[j].id

\* 'unknown' mode on three cards: a card with repetitions but no last review,
\* then two unknown cards, the later one created first
C38_Witness ==
    /\ soResult.call = "getStudyOrder"
    /\ soResult.mode = "unknown"
    /\ Len(soArgs.cards) = 3
    /\ soArgs.cards[1].repetitions = 1
    /\ ~soArgs.cards[1].lastReviewDate
    /\ ~IsKnown(soArgs.cards[2]) /\ soArgs.cards[2].createdAt = 1
    /\ ~IsKnown(soArgs.cards[3]) /\ soArgs.cards[3].createdAt = 0
    /\ soResult.cards = <<soArgs.cards[3], soArgs.cards[2], soArgs.cards[1]>>
====
